---- MODULE Spec2Model ----
(***************************************************************************)
(* Stage-gated state store and phase executor of the resume pipeline.      *)
(*                                                                         *)
(* One job folder (state key) is modelled: its pipeline_state.json, its    *)
(* agent_outputs directory, the in-memory StateManager of the orchestrator *)
(* working on it, and the position of that orchestrator inside             *)
(* run_phase1 / run_phase2 / run_phase3 / generate_resume.  Three          *)
(* orchestrator classes exist in the repository and are all modelled:      *)
(*   "enhanced"  orchestrator_enhanced.ResumeOrchestrator (imported as     *)
(*               `orchestrator` by the GUI and by the dynamic class)       *)
(*   "complete"  archive/orchestrator_complete.ResumeOrchestrator          *)
(*   "dynamic"   orchestrator_dynamic.DynamicResumeOrchestrator            *)
(* A capability call (the LLM agents) is opaque: it returns a fresh output *)
(* or raises.  An output is identified by the number of the call that      *)
(* produced it.  The process may be killed between any two steps; a write  *)
(* of one file is one step.  Wall-clock time is kept as far as the output  *)
(* file names see it: whether a recording falls into the same second as    *)
(* the recording before it.                                                *)
(*                                                                         *)
(* Two further views share the module.  KeysSpec: one orchestrator object  *)
(* that is handed two job folders in turn.  FanOutSpec: the parallel       *)
(* content selector (five selector tasks under asyncio.gather, the         *)
(* aggregator behind them).                                                *)
(***************************************************************************)
EXTENDS Integers, Sequences, FiniteSets, TLC

\* ---------------------------------------------------------------- bounds
MaxRuns     == 2   \* entry-point invocations on the job folder
MaxCrashes  == 1   \* of which killed
MaxFailures == 1   \* capability calls that raise
MaxQuick    == 1   \* recordings made in the same second as the one before
MaxCalls    == 3   \* phase invocations on one orchestrator object
MaxApiErrors == 3  \* API calls that raise during one select_async

\* ------------------------------------------------------ program constants
max_validation_retries == 2
max_qa_retries == 1
max_retries == 3          \* BaseAgent._call_api

Agents == {"job_analyzer", "content_selector", "resume_drafter",
           "validator", "voice_style_editor", "final_qa"}

\* the stage each set_* method of StateManager passes to save_agent_output
StageOf(agent) ==
  CASE agent = "job_analyzer"       -> "job_analysis_complete"
    [] agent = "content_selector"   -> "content_selection_complete"
    [] agent = "resume_drafter"     -> "draft_complete"
    [] agent = "validator"          -> "validation_complete"
    [] agent = "voice_style_editor" -> "style_editing_complete"
    [] agent = "final_qa"           -> "qa_complete"

\* the PipelineState field each set_* method assigns
FieldOf(agent) ==
  CASE agent = "job_analyzer"       -> "job_analysis"
    [] agent = "content_selector"   -> "content_selection"
    [] agent = "resume_drafter"     -> "resume_draft"
    [] agent = "validator"          -> "validation_result"
    [] agent = "voice_style_editor" -> "edited_resume"
    [] agent = "final_qa"           -> "qa_report"

Variants == {"enhanced", "complete", "dynamic"}

Range(s) == {s[i] : i \in DOMAIN s}

\* dict.get(key, default)
Get(d, key, default) == IF key \in DOMAIN d THEN d[key] ELSE default

\* the concatenation of a sequence of sequences
RECURSIVE Flatten(_)
Flatten(seqs) ==
  IF seqs = <<>> THEN <<>> ELSE Head(seqs) \o Flatten(Tail(seqs))

VARIABLES
  variant,        \* the orchestrator class in use
  now,            \* the agents whose newest output file is named by the
                  \* second datetime.now() currently returns
  state_file,     \* pipeline_state.json: [exists, data]
  outputs_dir,    \* agent_outputs/: per agent, the contents of its files
                  \* <timestamp>_<agent>.json in timestamp order
  artifacts,      \* resume_validated.json / resume_final.json (0 = absent)
  state_manager,  \* orchestrator.state_manager: [live, state]
  pc,             \* position of the orchestrator
  todo,           \* phases the running entry point still has to call
  args,           \* arguments of the running entry point
  loc,            \* local variables of the running phase
  rec,            \* the save_agent_output call in progress
  hist,           \* history of the run (observation only)
  \* two job folders and one orchestrator object that is handed either
  job_folders,    \* per folder: [state_file, outputs_dir]
  orchestrator,   \* [state_manager, pc, job_folder, ...]
  \* ParallelContentSelector.select_async
  select_pc,      \* position of select_async
  tasks,          \* the five tasks asyncio.gather made: their status
  api_attempt,    \* _call_api of the running task: the attempt it is in
  results,        \* what each task returned to gather
  aggregated,     \* what ContentAggregator.aggregate returned
  selector_hist,  \* history of the fan-out (observation only)
  \* DeduplicationAgent.deduplicate
  dedup_pc,          \* position of deduplicate
  content_selection, \* its argument
  all_texts,         \* what _extract_all_texts returned
  duplicates,        \* what _find_duplicates returned
  deduplicated,      \* what deduplicate builds and returns
  \* FabricationValidatorAgent.perform_structural_validation
  validator_pc,        \* position of perform_structural_validation
  validator_draft,     \* its argument resume_draft
  validator_selection, \* its argument content_selection
  validator_sources,   \* its local valid_sources
  issues,              \* what it returned
  \* date_formatter.standardize_date
  date_pc,      \* position of standardize_date
  date_input,   \* the argument it was called with
  date_str,     \* its variable date_str, which it rebinds
  date_result,  \* what the call came to
  \* SchemaTransformer.transform_full_content_selection
  normalize_pc,   \* position of the caller
  raw_selection,  \* the selection the first call was given
  transformed,    \* what the last call returned
  previous        \* what the call before the last returned

\* the variables of the pipeline on one job folder
pvars == <<variant, now, state_file, outputs_dir, artifacts, state_manager,
           pc, todo, args, loc, rec, hist>>

\* the variables of the two-folder view
kvars == <<job_folders, orchestrator>>

\* the variables of the parallel content selector
fvars == <<select_pc, tasks, api_attempt, results, aggregated,
           selector_hist>>

\* the variables of the deduplication
dvars == <<dedup_pc, content_selection, all_texts, duplicates, deduplicated>>

\* the variables of the structural validation
svars == <<validator_pc, validator_draft, validator_selection,
           validator_sources, issues>>

\* the variables of the date standardization
tvars == <<date_pc, date_input, date_str, date_result>>

\* the variables of the functions that are applied to an input on their own
\* the variables of the schema transformation
nvars == <<normalize_pc, raw_selection, transformed, previous>>

uvars == <<dvars, svars, tvars, nvars>>

\* what a step of the pipeline on one job folder leaves alone
aux == <<kvars, fvars, uvars>>

vars == <<pvars, kvars, fvars, uvars>>

\* ------------------------------------------------------------ state store

\* a store that never reports a stage as complete
can_skip_stage_never(state, stage) == FALSE

\* PipelineState as _load_or_create_state creates it (0 = None)
PipelineState ==
  [current_stage |-> "initialized", completed_stages |-> <<>>,
   errors |-> <<>>, job_analysis |-> 0, content_selection |-> 0,
   resume_draft |-> 0, validation_result |-> 0, edited_resume |-> 0,
   qa_report |-> 0, completed_at |-> FALSE]

\* a state manager that starts from a new state whatever the store holds
_load_or_create_state_fresh(file) == PipelineState

_load_or_create_state(file) ==
  IF file.exists THEN file.data ELSE PipelineState

StateManager(file) == [live |-> TRUE, state |-> _load_or_create_state(file)]

save_state(state) == [exists |-> TRUE, data |-> state]

can_skip_stage(state, stage) == stage \in Range(state.completed_stages)

\* the characters of the agent names the set_* methods and the
\* orchestrators pass to the store
Chars(agent) ==
  CASE agent = "job_analyzer" ->
         <<"j","o","b","_","a","n","a","l","y","z","e","r">>
    [] agent = "content_selector" ->
         <<"c","o","n","t","e","n","t","_","s","e","l","e","c","t","o","r">>
    [] agent = "resume_drafter" ->
         <<"r","e","s","u","m","e","_","d","r","a","f","t","e","r">>
    [] agent = "validator" ->
         <<"v","a","l","i","d","a","t","o","r">>
    [] agent = "voice_style_editor" ->
         <<"v","o","i","c","e","_","s","t","y","l","e","_",
           "e","d","i","t","o","r">>
    [] agent = "final_qa" ->
         <<"f","i","n","a","l","_","q","a">>

\* filename = f"{timestamp}_{agent_name}.json"; the timestamp is fifteen
\* characters of digits and "_", written here as one digit
FileName(agent) == <<"0", "_">> \o Chars(agent) \o <<".", "j", "s", "o", "n">>

\* str.endswith
IsSuffix(suffix, str) ==
  /\ Len(suffix) <= Len(str)
  /\ SubSeq(str, Len(str) - Len(suffix) + 1, Len(str)) = suffix

\* f.endswith(f"{agent_name}.json") for a file of file_agent
EndsWith(file_agent, agent_name) ==
  IsSuffix(Chars(agent_name) \o <<".", "j", "s", "o", "n">>,
           FileName(file_agent))

\* a load that takes the oldest file of the agent (sort without reverse)
load_agent_output_oldest(dir, agent_name) ==
  LET files == dir[CHOOSE a \in Agents : EndsWith(a, agent_name)]
  IN IF files = <<>> THEN 0 ELSE files[1]

\* files.sort(reverse=True); files[0]: the file with the greatest
\* timestamp among those of the agent (0 = None when there is no file)
load_agent_output(dir, agent_name) ==
  LET files == dir[CHOOSE a \in Agents : EndsWith(a, agent_name)]
  IN IF files = <<>> THEN 0 ELSE files[Len(files)]

\* a write that leaves the outputs directory as it was
WriteFile_lost(files, same_second, data) == files

\* open(filepath, 'w') on <timestamp>_<agent>.json: within the second that
\* names the agent's newest file the name is the same and the file is
\* replaced, later a new file is created
WriteFile(files, same_second, data) ==
  IF same_second /\ files # <<>>
  THEN [files EXCEPT ![Len(files)] = data]
  ELSE Append(files, data)

\* a recording that sets current_stage and leaves completed_stages alone
RecordStage_current_only(state, stage) ==
  [state EXCEPT !.current_stage = stage]

\* state.current_stage = stage; append stage when absent
RecordStage(state, stage) ==
  [state EXCEPT !.current_stage = stage,
                !.completed_stages =
                   IF stage \in Range(@) THEN @ ELSE Append(@, stage)]

\* ------------------------------------------------------------- initially

NoLocals ==
  [attempt |-> 0, job_analysis |-> 0, content_selection |-> 0,
   resume_draft |-> 0, edited_resume |-> 0, verdict |-> "none"]

NoRec == [agent |-> "none", data |-> 0, ret |-> "idle"]

NoArgs == [entry |-> "none", skip_style_editing |-> FALSE,
           force_redraft |-> FALSE]

ZeroCalls == [a \in Agents |-> 0]

NoHist ==
  [runs |-> 0, calls |-> ZeroCalls, callsRun |-> ZeroCalls,
   recorded |-> ZeroCalls, startCompleted |-> {}, phase |-> 0,
   outcome |-> "none", capError |-> FALSE, phase1Done |-> FALSE,
   firstPass |-> {}, crashPhase |-> 0, prevReturned |-> {},
   rerun |-> FALSE, crashes |-> 0, failures |-> 0, quick |-> 0,
   saved |-> {}, crashSkip |-> FALSE, last |-> ZeroCalls,
   prechecked |-> 0, issues |-> 0, validatedUnchecked |-> FALSE,
   validatedBroken |-> FALSE, failedAt |-> 0, styleAtQA |-> 0,
   qaStale |-> FALSE, qaRetryNoCritical |-> FALSE, validatedDraft |-> 0]

\* the job folders (state keys) of the two-folder view
Keys == {"A", "B"}

\* Python's None where a job folder is expected
None == "None"

\* an empty job folder
NoFolder ==
  [state_file |-> [exists |-> FALSE, data |-> PipelineState],
   outputs_dir |-> [a \in Agents |-> <<>>]]

\* ResumeOrchestrator.__init__: self.state_manager = None
NoOrchestrator ==
  [state_manager |-> [live |-> FALSE, state |-> PipelineState,
                      job_folder |-> None],
   pc |-> "idle", phase |-> 0, job_folder |-> None, todo |-> <<>>,
   for |-> None, read |-> {}, calls |-> 0]

\* the coroutines handed to asyncio.gather, in argument order: experiences,
\* projects, skills, publications, work samples
Selectors == 1..5

\* a task that has not returned has no result: an empty dict stands for it
NoResult == <<>>

NoSelectorHist ==
  [failures |-> 0,
   returned |-> [i \in Selectors |-> [raised |-> FALSE, value |-> NoResult]],
   order |-> <<>>]

\* select_async has not been called
SelectorIdle ==
  /\ select_pc = "idle"
  /\ tasks = [i \in Selectors |-> "none"]
  /\ api_attempt = 0
  /\ results = [i \in Selectors |-> NoResult]
  /\ aggregated = None
  /\ selector_hist = NoSelectorHist

\* deduplicate has not been called
DedupIdle ==
  /\ dedup_pc = "idle"
  /\ content_selection = <<>>
  /\ all_texts = <<>>
  /\ duplicates = <<>>
  /\ deduplicated = <<>>

\* perform_structural_validation has not been called
ValidatorIdle ==
  /\ validator_pc = "idle"
  /\ validator_draft = <<>>
  /\ validator_selection = <<>>
  /\ validator_sources = {}
  /\ issues = <<>>

\* standardize_date has not been called
DateIdle ==
  /\ date_pc = "idle"
  /\ date_input = <<>>
  /\ date_str = <<>>
  /\ date_result = <<>>

NormalizeIdle ==
  /\ normalize_pc = "idle"
  /\ raw_selection = <<>>
  /\ transformed = <<>>
  /\ previous = <<>>

Init ==
  /\ job_folders = [k \in Keys |-> NoFolder]
  /\ orchestrator = NoOrchestrator
  /\ SelectorIdle
  /\ DedupIdle
  /\ ValidatorIdle
  /\ DateIdle
  /\ NormalizeIdle
  /\ variant \in Variants
  /\ now = {}
  /\ state_file = [exists |-> FALSE, data |-> PipelineState]
  /\ outputs_dir = [a \in Agents |-> <<>>]
  /\ artifacts = [validated |-> 0, final |-> 0]
  /\ state_manager = [live |-> FALSE, state |-> PipelineState]
  /\ pc = "idle"
  /\ todo = <<>>
  /\ args = NoArgs
  /\ loc = NoLocals
  /\ rec = NoRec
  /\ hist = NoHist

\* ---------------------------------------------------------- entry points

PhasePc(p) ==
  CASE p = "phase1" -> "p1_init"
    [] p = "phase2" -> "p2_init"
    [] p = "phase3" -> "p3_init"
    [] p = "mark"   -> "mark"

Enter(entry, phases, skip, force) ==
  /\ pc = "idle"
  /\ hist.runs < MaxRuns
  /\ pc' = PhasePc(Head(phases))
  /\ todo' = Tail(phases)
  /\ args' = [entry |-> entry, skip_style_editing |-> skip,
              force_redraft |-> force]
  /\ loc' = NoLocals
  /\ rec' = NoRec
  /\ hist' = [hist EXCEPT !.runs = @ + 1]
  /\ UNCHANGED <<aux, variant, now, state_file, outputs_dir, artifacts,
                 state_manager>>

\* generate_resume / generate_resume_dynamic: create_job_folder makes a new
\* folder, so the full pipeline starts on a key without state
GenerateResume ==
  /\ ~state_file.exists
  /\ \A a \in Agents : outputs_dir[a] = <<>>
  /\ \E skip \in BOOLEAN :
       Enter("generate_resume", <<"phase1", "phase2", "phase3", "mark">>,
             skip, FALSE)

\* run_phase1(job_folder=...) / run_phase1_dynamic(job_folder=...)
RunPhase1 == Enter("run_phase1", <<"phase1">>, FALSE, FALSE)

\* run_phase2(job_folder=...); force_redraft exists in the archive class only
RunPhase2 ==
  \E force \in BOOLEAN :
    /\ force => variant = "complete"
    /\ Enter("run_phase2", <<"phase2">>, FALSE, force)

\* run_phase3(job_folder=..., skip_style_editing=...)
RunPhase3 ==
  \E skip \in BOOLEAN : Enter("run_phase3", <<"phase3">>, skip, FALSE)

\* main(), --resume-folder: run_phase2(job_folder) then run_phase3()
Resume ==
  \E skip \in BOOLEAN : Enter("resume", <<"phase2", "phase3">>, skip, FALSE)

\* ------------------------------------------------- leaving a phase

\* the phase returned: the entry point calls the next phase or returns
Return(outcome) ==
  /\ pc' = IF todo = <<>> THEN "done" ELSE PhasePc(Head(todo))
  /\ todo' = IF todo = <<>> THEN <<>> ELSE Tail(todo)
  /\ hist' = [hist EXCEPT !.outcome = outcome,
                !.phase1Done = @ \/ outcome = "phase1_complete"]

\* StateManager.add_error
add_error(state, error) == [state EXCEPT !.errors = Append(@, error)]

\* except Exception as e: state_manager.add_error(...); raise.
\* capability: the exception comes out of a capability call
Fail(msg, capability) ==
  /\ capability => hist.failures < MaxFailures
  /\ state_manager' =
       [state_manager EXCEPT !.state = add_error(@, msg)]
  /\ state_file' = save_state(state_manager'.state)
  /\ pc' = "done"
  /\ todo' = <<>>
  /\ hist' = [hist EXCEPT !.outcome = "raised",
                          !.capError = @ \/ capability,
                          !.failures = IF capability THEN @ + 1 ELSE @]

\* an exception raised outside the try block of a phase: nothing is logged
Raise ==
  /\ pc' = "done"
  /\ todo' = <<>>
  /\ hist' = [hist EXCEPT !.outcome = "raised"]

\* a capability call returned: count it and hand its output to the set_*
\* method, whose save_agent_output then runs in two steps
Handed(agent, ret) ==
  /\ rec' = [agent |-> agent, data |-> hist.calls[agent] + 1, ret |-> ret]
  /\ pc' = "rec_file"

\* the history with one more call of the agent
Counted(h, agent) ==
  [h EXCEPT !.calls[agent] = @ + 1,
            !.callsRun[agent] = @ + 1,
            !.firstPass =
               IF h.callsRun["validator"] = 0 /\ h.callsRun["final_qa"] = 0
               THEN @ \cup {agent} ELSE @]

Called(agent, ret) ==
  /\ Handed(agent, ret)
  /\ hist' = Counted(hist, agent)

\* the phase that begins is the one the last run was killed in, called with
\* the same options
IsRerun(p) ==
  /\ hist.crashPhase = p
  /\ hist.crashSkip = args.skip_style_editing

\* a phase begins: observation of what it starts from
Started(p, state) ==
  [hist EXCEPT !.phase = p, !.callsRun = ZeroCalls, !.firstPass = {},
               !.startCompleted = Range(state.completed_stages),
               !.rerun = IsRerun(p),
               !.crashPhase = 0,
               !.crashSkip = FALSE,
               !.prevReturned = IF IsRerun(p) THEN @ ELSE {},
               !.prechecked = 0, !.issues = 0,
               !.validatedUnchecked = FALSE, !.validatedBroken = FALSE,
               !.failedAt = 0, !.styleAtQA = 0, !.qaStale = FALSE,
               !.qaRetryNoCritical = FALSE]

\* ------------------------------------------------------ save_agent_output

\* set_*: state.<field> = output; save_agent_output up to json.dump of the
\* output file, named by the current second and the agent
WriteOutputFile ==
  /\ pc = "rec_file"
  /\ \E same_second \in BOOLEAN :
       /\ same_second => now # {} /\ hist.quick < MaxQuick
       /\ now' = IF same_second THEN now \cup {rec.agent} ELSE {rec.agent}
       /\ outputs_dir' =
            [outputs_dir EXCEPT
               ![rec.agent] = WriteFile(@, same_second /\ rec.agent \in now,
                                        rec.data)]
       /\ hist' = [hist EXCEPT !.recorded[rec.agent] = @ + 1,
                               !.last[rec.agent] = rec.data,
                               !.validatedDraft =
                                  IF rec.agent = "validator"
                                  THEN loc.resume_draft ELSE @,
                               !.quick = IF same_second THEN @ + 1 ELSE @]
  /\ state_manager' =
       [state_manager EXCEPT !.state[FieldOf(rec.agent)] = rec.data]
  /\ pc' = "rec_state"
  /\ UNCHANGED <<aux, variant, state_file, artifacts, todo, args, loc, rec>>

\* save_agent_output from "Update state" on: stage bookkeeping, save_state
UpdateState ==
  /\ pc = "rec_state"
  /\ state_manager' =
       [state_manager EXCEPT
          !.state = RecordStage(@, StageOf(rec.agent))]
  /\ state_file' = save_state(state_manager'.state)
  /\ pc' = rec.ret
  /\ rec' = NoRec
  /\ hist' = [hist EXCEPT !.saved = @ \cup {rec.agent}]
  /\ UNCHANGED <<aux, variant, now, outputs_dir, artifacts, todo, args, loc>>

\* ---------------------------------------------------------------- phase 1

\* run_phase1 up to the try block: StateManager(job_folder)
Phase1Init ==
  /\ pc = "p1_init"
  /\ state_manager' = StateManager(state_file)
  /\ loc' = NoLocals
  /\ pc' = "p1_ja"
  /\ hist' = Started(1, state_manager'.state)
  /\ UNCHANGED <<aux, variant, now, state_file, outputs_dir, artifacts, todo,
                 args, rec>>

\* AGENT 1: skip and reload, or analyze and record
JobAnalysis ==
  /\ pc = "p1_ja"
  /\ IF can_skip_stage(state_manager.state, "job_analysis_complete")
     THEN LET data == load_agent_output(outputs_dir, "job_analyzer")
          IN IF data = 0
             THEN /\ Fail("Phase 1 failed", FALSE)
                  /\ UNCHANGED <<loc, rec>>
             ELSE /\ loc' = [loc EXCEPT !.job_analysis = data]
                  /\ pc' = "p1_cs"
                  /\ UNCHANGED <<state_manager, state_file, todo, hist, rec>>
     ELSE \/ /\ Called("job_analyzer", "p1_cs")
             /\ loc' = [loc EXCEPT !.job_analysis =
                                      hist.calls["job_analyzer"] + 1]
             /\ UNCHANGED <<state_manager, state_file, todo>>
          \/ /\ Fail("Phase 1 failed", TRUE)
             /\ UNCHANGED <<loc, rec>>
  /\ UNCHANGED <<aux, variant, now, outputs_dir, artifacts, args>>

\* AGENT 2: skip and reload, or select and record
ContentSelection ==
  /\ pc = "p1_cs"
  /\ IF can_skip_stage(state_manager.state, "content_selection_complete")
     THEN LET data == load_agent_output(outputs_dir, "content_selector")
          IN IF data = 0
             THEN /\ Fail("Phase 1 failed", FALSE)
                  /\ UNCHANGED <<loc, rec>>
             ELSE /\ loc' = [loc EXCEPT !.content_selection = data]
                  /\ pc' = "p1_end"
                  /\ UNCHANGED <<state_manager, state_file, todo, hist, rec>>
     ELSE \/ /\ Called("content_selector", "p1_end")
             /\ loc' = [loc EXCEPT !.content_selection =
                                      hist.calls["content_selector"] + 1]
             /\ UNCHANGED <<state_manager, state_file, todo>>
          \/ /\ Fail("Phase 1 failed", TRUE)
             /\ UNCHANGED <<loc, rec>>
  /\ UNCHANGED <<aux, variant, now, outputs_dir, artifacts, args>>

\* current_stage = "phase1_complete"; save_state; return state
Phase1End ==
  /\ pc = "p1_end"
  /\ state_manager' =
       [state_manager EXCEPT !.state.current_stage = "phase1_complete"]
  /\ state_file' = save_state(state_manager'.state)
  /\ IF variant = "dynamic"
     THEN /\ pc' = "p1_workflow"
          /\ hist' = [hist EXCEPT !.phase1Done = TRUE]
          /\ UNCHANGED todo
     ELSE Return("phase1_complete")
  /\ UNCHANGED <<aux, variant, now, outputs_dir, artifacts, args, loc, rec>>

\* pydantic BaseModel.__setattr__ of PipelineState (no extra="allow" in
\* schemas.py): only a declared field can be assigned, anything else raises
\* ValueError
DeclaredFields ==
  DOMAIN PipelineState \cup {"job_folder", "company_name", "job_title",
                             "started_at", "pdf_generated", "pdf_path"}

\* a PipelineState that accepts any attribute
HasField_any(name) == TRUE

HasField(name) == name \in DeclaredFields

\* pydantic BaseModel.__init__ of PipelineState: the fields declared without
\* a default must all be given, else ValidationError
RequiredFields == {"job_folder", "company_name", "job_title"}

\* a PipelineState all of whose fields have defaults
Constructible_always(given) == TRUE

Constructible(given) == RequiredFields \subseteq given

\* run_phase1_dynamic after super().run_phase1: configure_workflow, then
\* state.workflow_config = ...; current_stage = "workflow_configured";
\* save_state.  The first assignment raises when PipelineState has no such
\* field, and run_phase1_dynamic has no handler.
ConfigureWorkflow ==
  /\ pc = "p1_workflow"
  /\ IF state_manager.state.job_analysis = 0
     THEN /\ Return("phase1_complete")
          /\ UNCHANGED <<state_manager, state_file>>
     ELSE IF HasField("workflow_config")
     THEN /\ state_manager' =
               [state_manager EXCEPT
                  !.state.current_stage = "workflow_configured"]
          /\ state_file' = save_state(state_manager'.state)
          /\ Return("phase1_complete")
     ELSE /\ Raise
          /\ UNCHANGED <<state_manager, state_file>>
  /\ UNCHANGED <<aux, variant, now, outputs_dir, artifacts, args, loc, rec>>

\* run_phase1_dynamic(job_folder, existing_job_analysis=...) on an
\* orchestrator that holds a state manager: PipelineState(job_folder=...,
\* job_analysis=..., current_stage="job_analyzed") is constructed and
\* assigned to state_manager.state; the content selection that follows reads
\* self.master_data, which no orchestrator class defines, so the branch
\* raises before its save_state.  Nothing is logged (no handler).
RunPhase1DynamicExisting ==
  /\ pc = "idle"
  /\ variant = "dynamic"
  /\ hist.runs < MaxRuns
  /\ state_manager.live
  /\ state_manager' =
       IF Constructible({"job_folder", "job_analysis", "current_stage"})
       THEN [state_manager EXCEPT
               !.state = [PipelineState EXCEPT
                            !.job_analysis = state_manager.state.job_analysis,
                            !.current_stage = "job_analyzed"]]
       ELSE state_manager
  /\ args' = [NoArgs EXCEPT !.entry = "run_phase1_dynamic"]
  /\ pc' = "done"
  /\ hist' = [hist EXCEPT !.runs = @ + 1, !.outcome = "raised"]
  /\ UNCHANGED <<aux, variant, now, state_file, outputs_dir, artifacts, todo,
                 loc, rec>>

\* ---------------------------------------------------------------- phase 2

\* the phase was called with job_folder: by the single-phase entry points,
\* by --resume-folder for its first phase, and by generate_resume_dynamic
JobFolderGiven(p) ==
  \/ args.entry \in {"run_phase1", "run_phase2", "run_phase3"}
  \/ args.entry = "resume" /\ p = 2
  \/ args.entry = "generate_resume" /\ variant = "dynamic"

\* "Initialize or restore state manager" of run_phase2 / run_phase3: the
\* archive class keeps a state manager it already holds
Restore(p) ==
  IF JobFolderGiven(p) /\ (variant = "complete" => ~state_manager.live)
  THEN StateManager(state_file)
  ELSE state_manager

\* run_phase2 up to the retry loop
Phase2Init ==
  /\ pc = "p2_init"
  /\ LET sm == Restore(2)
         ja == IF variant # "complete" /\ sm.state.job_analysis # 0
               THEN sm.state.job_analysis
               ELSE load_agent_output(outputs_dir, "job_analyzer")
         cs == IF variant # "complete" /\ sm.state.content_selection # 0
               THEN sm.state.content_selection
               ELSE load_agent_output(outputs_dir, "content_selector")
         started == Started(2, sm.state)
     IN IF variant = "complete"
           /\ ~can_skip_stage(sm.state, "content_selection_complete")
        THEN \* ValueError before the try block
             /\ state_manager' = sm
             /\ pc' = "done" /\ todo' = <<>>
             /\ hist' = [started EXCEPT !.outcome = "raised"]
             /\ UNCHANGED <<state_file, loc>>
        ELSE IF ja = 0 \/ cs = 0
        THEN \* JobAnalysis(**None) / ContentSelection(**None): TypeError
             /\ state_manager' =
                  [sm EXCEPT !.state =
                     add_error([@ EXCEPT !.job_analysis =
                                  IF variant = "complete" THEN @ ELSE ja],
                               "Phase 2 failed")]
             /\ state_file' = save_state(state_manager'.state)
             /\ pc' = "done" /\ todo' = <<>>
             /\ hist' = [started EXCEPT !.outcome = "raised"]
             /\ UNCHANGED loc
        ELSE /\ state_manager' =
                  IF variant = "complete" THEN sm
                  ELSE [sm EXCEPT !.state.job_analysis = ja,
                                  !.state.content_selection = cs]
             /\ loc' = [NoLocals EXCEPT !.job_analysis = ja,
                                        !.content_selection = cs]
             /\ pc' = "p2_draft"
             /\ hist' = started
             /\ UNCHANGED <<state_file, todo>>
  /\ UNCHANGED <<aux, variant, now, outputs_dir, artifacts, args, rec>>

\* a loop that reuses the recorded draft on every pass
UseExistingDraft_every_attempt ==
  can_skip_stage(state_manager.state, "draft_complete")

\* a loop that drafts anew on every pass
UseExistingDraft_never == FALSE

\* the condition under which the loop reuses the recorded draft
UseExistingDraft ==
  IF variant = "complete"
  THEN ~(args.force_redraft \/ loc.attempt > 0
         \/ ~can_skip_stage(state_manager.state, "draft_complete"))
  ELSE loc.attempt = 0
       /\ can_skip_stage(state_manager.state, "draft_complete")

\* where the loop continues once it has its draft: the archive class runs
\* the structural validation, orchestrator_enhanced goes on to AGENT 4
AfterDraft == IF variant = "complete" THEN "p2_precheck" ELSE "p2_validate"

\* AGENT 3: reuse the recorded draft, or draft and record
Draft ==
  /\ pc = "p2_draft"
  /\ IF UseExistingDraft
     THEN LET data == load_agent_output(outputs_dir, "resume_drafter")
          IN IF data = 0
             THEN /\ Fail("Phase 2 failed", FALSE)
                  /\ UNCHANGED <<loc, rec>>
             ELSE /\ loc' = [loc EXCEPT !.resume_draft = data]
                  /\ pc' = AfterDraft
                  /\ UNCHANGED <<state_manager, state_file, todo, hist, rec>>
     ELSE \/ /\ Called("resume_drafter", AfterDraft)
             /\ loc' = [loc EXCEPT !.resume_draft =
                                      hist.calls["resume_drafter"] + 1]
             /\ UNCHANGED <<state_manager, state_file, todo>>
          \/ /\ Fail("Phase 2 failed", TRUE)
             /\ UNCHANGED <<loc, rec>>
  /\ UNCHANGED <<aux, variant, now, outputs_dir, artifacts, args>>

\* --- FabricationValidatorAgent.perform_structural_validation
\* A draft entry is a dict that has a source_id or has none; an
\* achievement is a string ([str |-> ...]) or a dict.

MaxEntries == 2   \* experience entries in one draft

\* Python's None where a source_id is expected
NoSource == "None"

\* a dict with the source_id given, without the key for None
WithSource(d, source_id) ==
  IF source_id = NoSource THEN d ELSE d @@ ("source_id" :> source_id)

\* isinstance(ach, dict)
IsDict(ach) == "str" \notin DOMAIN ach

\* "Build set of valid source IDs": those of the selected experiences and
\* of the selected projects
valid_sources(selection) ==
  {exp.source_id : exp \in Range(selection.selected_experiences)}
    \cup {proj.source_id : proj \in Range(selection.selected_projects)}

\* the branch that tests one source_id: `if not source` appends a
\* missing_source_id issue, `elif source not in valid_sources` an
\* invalid_source_id issue
SourceIssues(source, valid, location, what) ==
  IF source = NoSource \/ source = ""
  THEN <<[severity |-> "critical",
          type |-> "missing_source_id",
          location |-> location,
          message |-> what \o " missing source_id field"]>>
  ELSE IF source \notin valid
  THEN <<[severity |-> "critical",
          type |-> "invalid_source_id",
          location |-> location,
          message |-> "Invalid source_id: " \o source]>>
  ELSE <<>>

\* FabricationValidatorAgent.perform_structural_validation: the
\* experience entries with their achievements, then the projects
perform_structural_validation(draft, selection) ==
  LET valid == valid_sources(selection)
      experience == draft.experience
      projects == draft.bulleted_projects
      of_achievements(i) ==
        LET achievements == Get(experience[i], "achievements", <<>>)
        IN Flatten([j \in DOMAIN achievements |->
                      IF IsDict(achievements[j])
                      THEN SourceIssues(
                             Get(achievements[j], "source_id", NoSource),
                             valid,
                             <<"experience", i - 1, "achievements", j - 1>>,
                             "Achievement")
                      ELSE <<>>])
  IN Flatten([i \in DOMAIN experience |->
                SourceIssues(Get(experience[i], "source_id", NoSource),
                             valid, <<"experience", i - 1>>, "Experience")
                \o of_achievements(i)])
     \o Flatten([i \in DOMAIN projects |->
                   SourceIssues(Get(projects[i], "source_id", NoSource),
                                valid, <<"bulleted_projects", i - 1>>,
                                "Project")])

\* a draft of the schema ResumeDraft, as far as it has entries
ResumeDraft(experience, bulleted_projects, work_samples, publications) ==
  [experience |-> experience,
   bulleted_projects |-> bulleted_projects,
   work_samples |-> work_samples,
   education |-> <<>>,
   publications |-> publications]

\* a content selection, as far as its items have a source_id
ContentSelectionOf(selected_experiences, selected_projects) ==
  [selected_experiences |-> selected_experiences,
   selected_projects |-> selected_projects]

\* the source_id fields of the experience entries a draft of the pipeline
\* can hold
DraftExperience ==
  {<<"exp_1">>, <<NoSource>>, <<"exp_9">>, <<"exp_1", NoSource>>}

\* the draft of the pipeline whose experience entries have these source ids
DraftOf(sources) ==
  ResumeDraft([i \in DOMAIN sources |->
                 WithSource([company |-> "company"], sources[i])],
              <<>>, <<>>, <<>>)

\* the content selection of the pipeline
SelectedContent ==
  ContentSelectionOf(<<[source_id |-> "exp_1"]>>, <<>>)

\* archive class, "Quick structural validation first": the issues are
\* printed and the loop goes on.  What the draft holds is the drafter's
\* choice and is looked at here.
StructuralCheck ==
  /\ pc = "p2_precheck"
  /\ \E experience \in DraftExperience :
       LET structural_issues ==
             perform_structural_validation(DraftOf(experience),
                                           SelectedContent)
       IN hist' = [hist EXCEPT !.prechecked = loc.resume_draft,
                               !.issues = Len(structural_issues)]
  /\ pc' = "p2_validate"
  /\ UNCHANGED <<aux, variant, now, state_file, outputs_dir, artifacts,
                 state_manager, todo, args, loc, rec>>

\* the validator is invoked on the draft: what was known of the draft
ValidatorInvoked(h) ==
  [h EXCEPT
     !.validatedUnchecked = @ \/ h.prechecked # loc.resume_draft,
     !.validatedBroken =
        @ \/ (h.prechecked = loc.resume_draft /\ h.issues > 0)]

\* AGENT 4: validate the draft (never skip-checked) and record the result
Validate ==
  /\ pc = "p2_validate"
  /\ \/ \E v \in {"valid", "invalid"} :
          /\ Handed("validator", "p2_check")
          /\ hist' = ValidatorInvoked(Counted(hist, "validator"))
          /\ loc' = [loc EXCEPT !.verdict = v]
          /\ UNCHANGED <<state_manager, state_file, todo>>
     \/ /\ Fail("Phase 2 failed", TRUE)
        /\ UNCHANGED <<loc, rec>>
  /\ UNCHANGED <<aux, variant, now, outputs_dir, artifacts, args>>

\* what the loop does with a failed validation once no retry is left:
\* orchestrator_enhanced raises "Resume validation failed after all
\* retries"; the archive class proceeds with warnings
RaisesOnExhaustion == variant # "complete"

\* a loop that goes round for as long as the validation fails
ValidationRetry_while_invalid == loc.verdict # "valid"

\* the condition under which the loop goes round again: no break on
\* is_valid, and range(max_validation_retries + 1) not used up
ValidationRetry ==
  loc.verdict # "valid" /\ loc.attempt < max_validation_retries

\* the end of one loop iteration
ValidationCheck ==
  /\ pc = "p2_check"
  /\ IF loc.verdict = "valid"
     THEN /\ pc' = "p2_end"
          /\ UNCHANGED <<state_manager, state_file, todo, hist, loc>>
     ELSE IF ValidationRetry
     THEN /\ loc' = [loc EXCEPT !.attempt = @ + 1]
          /\ pc' = "p2_draft"
          /\ hist' = [hist EXCEPT !.failedAt = hist.calls["resume_drafter"]]
          /\ UNCHANGED <<state_manager, state_file, todo>>
     ELSE IF RaisesOnExhaustion
     THEN /\ Fail("Phase 2 failed", FALSE)
          /\ UNCHANGED loc
     ELSE /\ pc' = "p2_end"
          /\ UNCHANGED <<state_manager, state_file, todo, hist, loc>>
  /\ UNCHANGED <<aux, variant, now, outputs_dir, artifacts, args, rec>>

\* resume_validated.json (orchestrator_enhanced only);
\* current_stage = "phase2_complete"; save_state; return state
Phase2End ==
  /\ pc = "p2_end"
  /\ artifacts' = IF variant = "complete" THEN artifacts
                  ELSE [artifacts EXCEPT !.validated = loc.resume_draft]
  /\ state_manager' =
       [state_manager EXCEPT !.state.current_stage = "phase2_complete"]
  /\ state_file' = save_state(state_manager'.state)
  /\ Return("phase2_complete")
  /\ UNCHANGED <<aux, variant, now, outputs_dir, args, loc, rec>>

\* ---------------------------------------------------------------- phase 3

\* run_phase3 up to AGENT 5
Phase3Init ==
  /\ pc = "p3_init"
  /\ LET sm == Restore(3)
         draft == IF variant # "complete" /\ sm.state.resume_draft # 0
                  THEN sm.state.resume_draft
                  ELSE load_agent_output(outputs_dir, "resume_drafter")
         ja == IF variant = "complete"
               THEN load_agent_output(outputs_dir, "job_analyzer")
               ELSE 0
         started == Started(3, sm.state)
     IN IF variant = "complete"
           /\ ~can_skip_stage(sm.state, "validation_complete")
        THEN \* ValueError before the try block
             /\ state_manager' = sm
             /\ pc' = "done" /\ todo' = <<>>
             /\ hist' = [started EXCEPT !.outcome = "raised"]
             /\ UNCHANGED <<state_file, loc>>
        ELSE IF draft = 0 \/ (variant = "complete" /\ ja = 0)
        THEN \* ResumeDraft(**None) / JobAnalysis(**None): TypeError
             /\ state_manager' =
                  [sm EXCEPT !.state = add_error(@, "Phase 3 failed")]
             /\ state_file' = save_state(state_manager'.state)
             /\ pc' = "done" /\ todo' = <<>>
             /\ hist' = [started EXCEPT !.outcome = "raised"]
             /\ UNCHANGED loc
        ELSE /\ state_manager' =
                  IF variant = "complete" THEN sm
                  ELSE [sm EXCEPT !.state.resume_draft = draft]
             /\ loc' = [NoLocals EXCEPT !.resume_draft = draft,
                                        !.job_analysis = ja]
             /\ pc' = "p3_style"
             /\ hist' = started
             /\ UNCHANGED <<state_file, todo>>
  /\ UNCHANGED <<aux, variant, now, outputs_dir, artifacts, args, rec>>

\* where run_phase3 continues after AGENT 5: orchestrator_enhanced loads
\* the job analysis there, the archive class has loaded it already
AfterStyle == IF variant = "complete" THEN "p3_qa" ELSE "p3_ja"

\* AGENT 5: skip by flag, reuse the recorded edit, or edit and record
StyleEdit ==
  /\ pc = "p3_style"
  /\ IF args.skip_style_editing
     THEN /\ loc' = [loc EXCEPT !.edited_resume = loc.resume_draft]
          /\ pc' = AfterStyle
          /\ UNCHANGED <<state_manager, state_file, todo, hist, rec>>
     ELSE IF can_skip_stage(state_manager.state, "style_editing_complete")
     THEN LET data == load_agent_output(outputs_dir, "voice_style_editor")
          IN IF data = 0
             THEN /\ Fail("Phase 3 failed", FALSE)
                  /\ UNCHANGED <<loc, rec>>
             ELSE /\ loc' = [loc EXCEPT
                               !.edited_resume = data,
                               !.resume_draft =
                                  IF variant = "complete" THEN data ELSE @]
                  /\ pc' = AfterStyle
                  /\ UNCHANGED <<state_manager, state_file, todo, hist, rec>>
     ELSE \/ /\ Called("voice_style_editor", AfterStyle)
             /\ loc' = [loc EXCEPT !.edited_resume =
                                      hist.calls["voice_style_editor"] + 1]
             /\ UNCHANGED <<state_manager, state_file, todo>>
          \/ /\ Fail("Phase 3 failed", TRUE)
             /\ UNCHANGED <<loc, rec>>
  /\ UNCHANGED <<aux, variant, now, outputs_dir, artifacts, args>>

\* orchestrator_enhanced: "Load job analysis for ATS check"
LoadJobAnalysis ==
  /\ pc = "p3_ja"
  /\ LET data == load_agent_output(outputs_dir, "job_analyzer")
     IN IF data = 0
        THEN /\ Fail("Phase 3 failed", FALSE)
             /\ UNCHANGED loc
        ELSE /\ loc' = [loc EXCEPT !.job_analysis = data]
             /\ pc' = "p3_qa"
             /\ UNCHANGED <<state_manager, state_file, todo, hist>>
  /\ UNCHANGED <<aux, variant, now, outputs_dir, artifacts, args, rec>>

QAStatus == {"pass", "pass_with_warnings", "fail_critical", "fail"}

\* the QA is invoked: was the document refined since the QA before
ReviewInvoked(h) ==
  [h EXCEPT
     !.styleAtQA = h.calls["voice_style_editor"],
     !.qaStale = @ \/ (loc.attempt > 0
                        /\ h.styleAtQA = h.calls["voice_style_editor"])]

\* AGENT 6: review (never skip-checked) and record the report
QAReview ==
  /\ pc = "p3_qa"
  /\ \/ \E status \in QAStatus :
          /\ Handed("final_qa", "p3_check")
          /\ hist' = ReviewInvoked(Counted(hist, "final_qa"))
          /\ loc' = [loc EXCEPT !.verdict = status]
          /\ UNCHANGED <<state_manager, state_file, todo>>
     \/ /\ Fail("Phase 3 failed", TRUE)
        /\ UNCHANGED <<loc, rec>>
  /\ UNCHANGED <<aux, variant, now, outputs_dir, artifacts, args>>

\* a QA loop that goes round for as long as the QA fails
QARetry_while_failing == loc.verdict \notin {"pass", "pass_with_warnings"}

\* the condition under which the QA loop goes round again
QARetry ==
  /\ loc.verdict \notin {"pass", "pass_with_warnings"}
  /\ loc.attempt < max_qa_retries
  /\ variant = "complete" => loc.verdict = "fail_critical"

\* the end of one QA loop iteration; the archive class re-runs the style
\* editor before the next review
QACheck ==
  /\ pc = "p3_check"
  /\ IF QARetry
     THEN /\ loc' = [loc EXCEPT !.attempt = @ + 1]
          /\ pc' = IF variant = "complete" THEN "p3_restyle" ELSE "p3_qa"
          /\ hist' = [hist EXCEPT !.qaRetryNoCritical =
                                     @ \/ loc.verdict # "fail_critical"]
     ELSE /\ pc' = "p3_end"
          /\ UNCHANGED <<loc, hist>>
  /\ UNCHANGED <<aux, variant, now, state_file, outputs_dir, artifacts,
                 state_manager, todo, args, rec>>

\* archive class: "Re-run style editor with focus on issues"
StyleRetry ==
  /\ pc = "p3_restyle"
  /\ \/ /\ Called("voice_style_editor", "p3_qa")
        /\ loc' = [loc EXCEPT !.edited_resume =
                                 hist.calls["voice_style_editor"] + 1]
        /\ UNCHANGED <<state_manager, state_file, todo>>
     \/ /\ Fail("Phase 3 failed", TRUE)
        /\ UNCHANGED <<loc, rec>>
  /\ UNCHANGED <<aux, variant, now, outputs_dir, artifacts, args>>

\* resume_final.json; current_stage = "phase3_complete"; save_state
Phase3End ==
  /\ pc = "p3_end"
  /\ artifacts' = [artifacts EXCEPT !.final = loc.edited_resume]
  /\ state_manager' =
       [state_manager EXCEPT !.state.current_stage = "phase3_complete"]
  /\ state_file' = save_state(state_manager'.state)
  /\ Return("phase3_complete")
  /\ UNCHANGED <<aux, variant, now, outputs_dir, args, loc, rec>>

\* generate_resume: state_manager.mark_completed()
MarkCompleted ==
  /\ pc = "mark"
  /\ state_manager' =
       [state_manager EXCEPT !.state.current_stage = "completed",
                             !.state.completed_at = TRUE]
  /\ state_file' = save_state(state_manager'.state)
  /\ Return("completed")
  /\ UNCHANGED <<aux, variant, now, outputs_dir, artifacts, args, loc, rec>>

\* ------------------------------------------------------------ environment

\* what is left of the history once an entry point is over
Forget(h) ==
  [NoHist EXCEPT !.runs = h.runs, !.calls = h.calls,
                 !.recorded = h.recorded, !.phase1Done = h.phase1Done,
                 !.crashes = h.crashes, !.failures = h.failures,
                 !.quick = h.quick, !.saved = h.saved,
                 !.crashPhase = h.crashPhase, !.crashSkip = h.crashSkip,
                 !.prevReturned = h.prevReturned, !.last = h.last,
                 !.validatedDraft = h.validatedDraft]

\* the entry point has returned or raised; the orchestrator object is kept
Exit ==
  /\ pc = "done"
  /\ pc' = "idle"
  /\ args' = NoArgs
  /\ loc' = NoLocals
  /\ hist' = Forget(hist)
  /\ UNCHANGED <<aux, variant, now, state_file, outputs_dir, artifacts,
                 state_manager, todo, rec>>

\* the process is killed inside a phase: memory is lost, files stay.  The
\* process that is started next records in a later second.
Crash ==
  /\ pc \notin {"idle", "done"}
  /\ hist.crashes < MaxCrashes
  /\ pc' = "idle"
  /\ now' = {}
  /\ todo' = <<>>
  /\ args' = NoArgs
  /\ loc' = NoLocals
  /\ rec' = NoRec
  /\ state_manager' = [live |-> FALSE, state |-> PipelineState]
  /\ hist' = [Forget(hist) EXCEPT
                !.crashes = @ + 1,
                !.crashPhase = hist.phase,
                !.crashSkip = args.skip_style_editing,
                !.prevReturned = {a \in Agents : hist.callsRun[a] > 0}]
  /\ UNCHANGED <<aux, variant, state_file, outputs_dir, artifacts>>

Next ==
  \/ GenerateResume \/ RunPhase1 \/ RunPhase2 \/ RunPhase3 \/ Resume
  \/ RunPhase1DynamicExisting
  \/ WriteOutputFile \/ UpdateState
  \/ Phase1Init \/ JobAnalysis \/ ContentSelection \/ Phase1End
  \/ ConfigureWorkflow
  \/ Phase2Init \/ Draft \/ StructuralCheck \/ Validate \/ ValidationCheck
  \/ Phase2End
  \/ Phase3Init \/ StyleEdit \/ LoadJobAnalysis \/ QAReview \/ QACheck
  \/ StyleRetry \/ Phase3End
  \/ MarkCompleted
  \/ Exit
  \/ Crash

Spec == Init /\ [][Next]_vars

\* ------------------------------------------------- two job folders
\* One orchestrator object is handed job folders in turn.  A phase is a
\* restore step, its tasks in order and its end marker; a recording is one
\* step here, and every capability call returns.

\* StateManager(job_folder): the paths are those of the folder given
StateManagerAt(job_folder) ==
  [live |-> TRUE,
   state |-> _load_or_create_state(job_folders[job_folder].state_file),
   job_folder |-> job_folder]

\* "Initialize or restore state manager": run_phase1 always makes a new
\* state manager; run_phase2 / run_phase3 make one when job_folder is
\* given, the archive class only when it holds none
RestoreAt(p, job_folder, sm) ==
  IF p = 1 \/ (job_folder # None /\ (variant = "complete" => ~sm.live))
  THEN StateManagerAt(job_folder)
  ELSE sm

\* the tasks of a phase in the order the phase runs them
PhaseTasks(p) ==
  CASE p = 1 -> <<"job_analyzer", "content_selector">>
    [] p = 2 -> <<"resume_drafter", "validator">>
    [] p = 3 -> <<"voice_style_editor", "final_qa">>

\* the stage the archive class requires before a phase
RequiredStage(p) ==
  CASE p = 2 -> "content_selection_complete"
    [] p = 3 -> "validation_complete"

\* the tasks a phase skips when their stage is complete
SkipChecked == {"job_analyzer", "content_selector", "resume_drafter",
                "voice_style_editor"}

PhaseMarker(p) ==
  CASE p = 1 -> "phase1_complete"
    [] p = 2 -> "phase2_complete"
    [] p = 3 -> "phase3_complete"

\* run_phase1(job_folder=k) / run_phase2(job_folder) / run_phase3(job_folder)
\* is called; the key the call is for is the folder given, or the folder of
\* the state manager held when none is given
CallPhase ==
  /\ orchestrator.pc = "idle"
  /\ orchestrator.calls < MaxCalls
  /\ \E p \in 1..3, job_folder \in Keys \cup {None} :
       /\ p = 1 => job_folder # None
       /\ orchestrator' =
            [orchestrator EXCEPT
               !.pc = "restore", !.phase = p, !.job_folder = job_folder,
               !.for = IF job_folder # None THEN job_folder
                       ELSE orchestrator.state_manager.job_folder,
               !.read = {}, !.calls = @ + 1]
  /\ UNCHANGED <<pvars, fvars, uvars, job_folders>>

\* the phase up to its try block
RestorePhase ==
  /\ orchestrator.pc = "restore"
  /\ LET p == orchestrator.phase
         sm == RestoreAt(p, orchestrator.job_folder,
                         orchestrator.state_manager)
         raises == \/ ~sm.live
                   \/ /\ variant = "complete"
                      /\ p > 1
                      /\ ~can_skip_stage(sm.state, RequiredStage(p))
     IN orchestrator' =
          [orchestrator EXCEPT
             !.state_manager = sm,
             !.read = IF sm.live THEN {sm.job_folder} ELSE {},
             !.pc = IF raises THEN "idle" ELSE "task",
             !.todo = IF raises THEN <<>> ELSE PhaseTasks(p)]
  /\ UNCHANGED <<pvars, fvars, uvars, job_folders>>

\* one task of the phase: its recorded output is loaded, or it is called
\* and set_* records its output through the state manager held
RunTask ==
  /\ orchestrator.pc = "task"
  /\ orchestrator.todo # <<>>
  /\ LET sm == orchestrator.state_manager
         agent == Head(orchestrator.todo)
         folder == job_folders[sm.job_folder]
     IN IF agent \in SkipChecked /\ can_skip_stage(sm.state, StageOf(agent))
        THEN /\ orchestrator' =
                  [orchestrator EXCEPT !.todo = Tail(@),
                                       !.read = @ \cup {sm.job_folder}]
             /\ UNCHANGED job_folders
        ELSE LET state == RecordStage(sm.state, StageOf(agent))
             IN /\ job_folders' =
                     [job_folders EXCEPT
                        ![sm.job_folder] =
                           [state_file |-> save_state(state),
                            outputs_dir |->
                              [folder.outputs_dir EXCEPT
                                 ![agent] = WriteFile(@, FALSE,
                                                      orchestrator.calls)]]]
                /\ orchestrator' =
                     [orchestrator EXCEPT !.todo = Tail(@),
                                          !.state_manager.state = state]
  /\ UNCHANGED <<pvars, fvars, uvars>>

\* current_stage = "phaseN_complete"; save_state; return
EndPhase ==
  /\ orchestrator.pc = "task"
  /\ orchestrator.todo = <<>>
  /\ LET sm == orchestrator.state_manager
         state == [sm.state EXCEPT
                     !.current_stage = PhaseMarker(orchestrator.phase)]
     IN /\ job_folders' =
             [job_folders EXCEPT
                ![sm.job_folder].state_file = save_state(state)]
        /\ orchestrator' =
             [orchestrator EXCEPT !.pc = "idle",
                                  !.state_manager.state = state]
  /\ UNCHANGED <<pvars, fvars, uvars>>

KeysNext == CallPhase \/ RestorePhase \/ RunTask \/ EndPhase

KeysSpec == Init /\ [][KeysNext]_vars

\* ------------------------------------------ parallel content selector
\* select_async hands five coroutines to asyncio.gather on one event loop.
\* A coroutine _select_*_async calls its selector's synchronous select()
\* and holds no await: once the loop has started it, the loop runs nothing
\* else until it returns.  A selector's select() is execute(): _call_api
\* with its retries, then parse_response.  A Python dict is a function
\* from its keys, a list a sequence.

\* the key under which a selector returns its selection
Category(i) ==
  CASE i = 1 -> "selected_experiences"
    [] i = 2 -> "selected_projects"
    [] i = 3 -> "selected_skills"
    [] i = 4 -> "selected_publications"
    [] i = 5 -> "selected_work_samples"

\* what the capability can answer: JSON with the selection and a summary,
\* JSON with the selection only, JSON without the selection key, no JSON
Responses == {"full", "plain", "missing", "garbage"}

Returned(value) == [raised |-> FALSE, value |-> value]

Raised(error) == [raised |-> TRUE, value |-> error]

\* parse_response of selector i
parse_response(i, response) ==
  LET plain == (Category(i) :> <<i>>)
                 @@ ("selection_notes" :> <<"notes", Category(i)>>)
      summary == [coverage |->
                    [technical_requirements_covered |-> <<"python", Category(i)>>]]
  IN CASE response = "garbage" -> Raised("JSONDecodeError")
       [] response = "missing" ->
            IF i \in {4, 5}
            THEN Returned((Category(i) :> <<>>)
                          @@ ("selection_notes" :>
                                <<"nothing relevant", Category(i)>>))
            ELSE Raised("ValueError")
       [] response = "plain" -> Returned(plain)
       [] response = "full" ->
            Returned(plain @@ ("selection_summary" :> summary))

\* a coroutine that lets the exception of its selector out
_select_async_reraise(i, outcome) ==
  IF outcome.raised THEN ("exception" :> outcome.value)
  ELSE outcome.value

\* _select_*_async: try: return selector.select(...)
\* except Exception as e: return {<category>: [], 'selection_notes':
\* f'Error: {e}'}
_select_async(i, outcome) ==
  IF outcome.raised
  THEN (Category(i) :> <<>>) @@ ("selection_notes" :> <<"Error", outcome.value>>)
  ELSE outcome.value

\* isinstance(result, Exception)
IsException(result) == "exception" \in DOMAIN result

\* a join that returns as soon as one task is done
Joined_first_completed == \E i \in Selectors : tasks[i] = "done"

\* await asyncio.gather(..., return_exceptions=True) returns when every
\* task it made is done
Joined == \A i \in Selectors : tasks[i] = "done"

\* the task the event loop runs next: tasks are made in argument order and
\* the loop's ready queue is first in, first out
NextReady ==
  IF \E i \in Selectors : tasks[i] = "pending"
  THEN CHOOSE i \in Selectors :
         /\ tasks[i] = "pending"
         /\ \A j \in Selectors : tasks[j] = "pending" => i <= j
  ELSE 0

\* select_async up to the await: gather wraps the coroutines in tasks
SelectAsync ==
  /\ select_pc = "idle"
  /\ select_pc' = "gather"
  /\ tasks' = [i \in Selectors |-> "pending"]
  /\ UNCHANGED <<pvars, kvars, uvars, api_attempt, results, aggregated,
                 selector_hist>>

\* the event loop, with nothing running, starts the next ready task: the
\* coroutine runs into selector.select() and its first API call
StartTask(i) ==
  /\ select_pc = "gather"
  /\ \A j \in Selectors : tasks[j] # "running"
  /\ i = NextReady
  /\ tasks' = [tasks EXCEPT ![i] = "running"]
  /\ api_attempt' = 0
  /\ selector_hist' = [selector_hist EXCEPT !.order = Append(@, i)]
  /\ UNCHANGED <<pvars, kvars, uvars, select_pc, results, aggregated>>

\* the task is over: its coroutine returns to gather
Finish(i, outcome) ==
  /\ tasks' = [tasks EXCEPT ![i] = "done"]
  /\ results' = [results EXCEPT ![i] = _select_async(i, outcome)]
  /\ api_attempt' = 0

\* client.messages.create raises inside _call_api: retried with a console
\* message, re-raised out of select() on the last attempt
ApiError(i) ==
  /\ tasks[i] = "running"
  /\ selector_hist.failures < MaxApiErrors
  /\ IF api_attempt < max_retries - 1
     THEN /\ api_attempt' = api_attempt + 1
          /\ selector_hist' = [selector_hist EXCEPT !.failures = @ + 1]
          /\ UNCHANGED <<tasks, results>>
     ELSE /\ Finish(i, Raised("APIError"))
          /\ selector_hist' =
               [selector_hist EXCEPT !.failures = @ + 1,
                                     !.returned[i] = Raised("APIError")]
  /\ UNCHANGED <<pvars, kvars, uvars, select_pc, aggregated>>

\* client.messages.create returns; parse_response returns or raises
ApiResponse(i) ==
  /\ tasks[i] = "running"
  /\ \E response \in Responses :
       LET outcome == parse_response(i, response)
       IN /\ Finish(i, outcome)
          /\ selector_hist' = [selector_hist EXCEPT !.returned[i] = outcome]
  /\ UNCHANGED <<pvars, kvars, uvars, select_pc, aggregated>>

\* gather returns the results in argument order; _check_for_errors raises
\* the first result that is an exception
CheckForErrors ==
  /\ select_pc = "gather"
  /\ Joined
  /\ select_pc' = IF \E i \in Selectors : IsException(results[i])
                  THEN "raised" ELSE "aggregate"
  /\ UNCHANGED <<pvars, kvars, uvars, tasks, api_attempt, results, aggregated,
                 selector_hist>>

\* ContentAggregator._build_selection_strategy: the notes the f-strings
\* put into the narrative, in their order
_build_selection_strategy(exp_sel, proj_sel, skills_sel) ==
  <<Get(exp_sel, "selection_notes", <<>>),
    Get(proj_sel, "selection_notes", <<>>),
    Get(skills_sel, "selection_notes", <<>>)>>

\* ContentAggregator._build_coverage_analysis: the technical requirements
\* the experience and project selectors report as covered, without
\* duplicates
_build_coverage_analysis(exp_sel, proj_sel, skills_sel) ==
  LET exp_coverage ==
        Get(Get(exp_sel, "selection_summary", <<>>), "coverage", <<>>)
      proj_coverage ==
        Get(Get(proj_sel, "selection_summary", <<>>), "coverage", <<>>)
      all_technical ==
        Range(Get(exp_coverage, "technical_requirements_covered", <<>>)
              \o Get(proj_coverage, "technical_requirements_covered", <<>>))
  IN [must_have_requirements_covered |-> Cardinality(all_technical),
      technical_skills_covered |-> all_technical]

\* ContentAggregator.aggregate
aggregate(r) ==
  [selected_experiences |-> Get(r[1], Category(1), <<>>),
   selected_projects |-> Get(r[2], Category(2), <<>>),
   selected_skills |-> Get(r[3], Category(3), <<>>),
   selected_publications |-> Get(r[4], Category(4), <<>>),
   selected_work_samples |-> Get(r[5], Category(5), <<>>),
   selection_strategy |-> _build_selection_strategy(r[1], r[2], r[3]),
   coverage_analysis |-> _build_coverage_analysis(r[1], r[2], r[3])]

\* select_async, "Phase 2: Aggregation"
Aggregate ==
  /\ select_pc = "aggregate"
  /\ aggregated' = aggregate(results)
  /\ select_pc' = "aggregated"
  /\ UNCHANGED <<pvars, kvars, uvars, tasks, api_attempt, results, selector_hist>>

FanOutNext ==
  \/ SelectAsync
  \/ \E i \in Selectors : StartTask(i) \/ ApiError(i) \/ ApiResponse(i)
  \/ CheckForErrors
  \/ Aggregate

\* ParallelContentSelector is built on its own, outside the orchestrators
FanOutInit == Init /\ variant = "enhanced"

FanOutSpec == FanOutInit /\ [][FanOutNext]_vars

\* ------------------------------------------------- similarity matcher
\* A Python string is the sequence of its characters.

Alphabet ==
  <<"a", "b", "c", "d", "e", "f", "g", "h", "i", "j", "k", "l", "m", "n",
    "o", "p", "q", "r", "s", "t", "u", "v", "w", "x", "y", "z">>

UpperAlphabet ==
  <<"A", "B", "C", "D", "E", "F", "G", "H", "I", "J", "K", "L", "M", "N",
    "O", "P", "Q", "R", "S", "T", "U", "V", "W", "X", "Y", "Z">>

\* str.lower
lower(text) ==
  [n \in DOMAIN text |->
     IF \E k \in DOMAIN UpperAlphabet : UpperAlphabet[k] = text[n]
     THEN Alphabet[CHOOSE k \in DOMAIN UpperAlphabet :
                     UpperAlphabet[k] = text[n]]
     ELSE text[n]]

\* str.strip: the text without its leading and trailing blanks
strip(text) ==
  LET inked == {n \in DOMAIN text : text[n] # " "}
  IN IF inked = {} THEN <<>>
     ELSE SubSeq(text,
                 CHOOSE n \in inked : \A o \in inked : n <= o,
                 CHOOSE n \in inked : \A o \in inked : n >= o)

\* the greatest number of a non-empty set of numbers
Max(S) == CHOOSE n \in S : \A o \in S : n >= o

\* the least number of a non-empty set of numbers
Min(S) == CHOOSE n \in S : \A o \in S : n <= o

\* the length of the longest block a[i..] = b[j..] inside a[..ahi], b[..bhi]
RECURSIVE Extent(_, _, _, _, _, _)
Extent(a, b, i, j, ahi, bhi) ==
  IF i > ahi \/ j > bhi THEN 0
  ELSE IF a[i] # b[j] THEN 0
  ELSE 1 + Extent(a, b, i + 1, j + 1, ahi, bhi)

\* difflib.SequenceMatcher.find_longest_match without junk (autojunk needs
\* 200 elements): the longest block common to a[alo..ahi] and b[blo..bhi],
\* of those the one that starts earliest in a, of those the one that
\* starts earliest in b
find_longest_match(a, b, alo, ahi, blo, bhi) ==
  LET size == [i \in alo..ahi, j \in blo..bhi |->
                 Extent(a, b, i, j, ahi, bhi)]
      k == Max({0} \cup {size[i, j] : i \in alo..ahi, j \in blo..bhi})
  IN IF k = 0 THEN [i |-> alo, j |-> blo, k |-> 0]
     ELSE LET i == Min({n \in alo..ahi :
                          \E o \in blo..bhi : size[n, o] = k})
              j == Min({o \in blo..bhi : size[i, o] = k})
          IN [i |-> i, j |-> j, k |-> k]

\* the sum of the sizes of SequenceMatcher.get_matching_blocks: the
\* longest block, then the pieces to its left and to its right
RECURSIVE Matches(_, _, _, _, _, _)
Matches(a, b, alo, ahi, blo, bhi) ==
  IF alo > ahi \/ blo > bhi THEN 0
  ELSE LET x == find_longest_match(a, b, alo, ahi, blo, bhi)
       IN IF x.k = 0 THEN 0
          ELSE x.k + Matches(a, b, alo, x.i - 1, blo, x.j - 1)
                   + Matches(a, b, x.i + x.k, ahi, x.j + x.k, bhi)

\* a float that is a quotient of two naturals, kept as the quotient
Ratio(num, den) == [num |-> num, den |-> den]

\* q1 >= q2 on floats that are correctly rounded quotients of small numbers
AtLeast(q1, q2) == q1.num * q2.den >= q2.num * q1.den

\* SequenceMatcher.ratio: 2.0 * matches / length, 1.0 for two empty texts
ratio(a, b) ==
  IF Len(a) + Len(b) = 0 THEN Ratio(1, 1)
  ELSE Ratio(2 * Matches(a, b, 1, Len(a), 1, Len(b)), Len(a) + Len(b))

\* DeduplicationAgent._calculate_similarity
_calculate_similarity(text1, text2) ==
  ratio(strip(lower(text1)), strip(lower(text2)))

\* the texts a selection is made of
Rep(c, n) == [k \in 1..n |-> c]

Stem == SubSeq(Alphabet, 1, 4)

Body == SubSeq(Alphabet, 5, 17)

Tail4 == SubSeq(Alphabet, 18, 21)

s19 == Rep("v", 19)

s20 == Rep("w", 20)

t1 == Stem \o Body \o Rep("0", 4)

t2 == Stem \o Body \o Tail4

t3 == Body \o Tail4 \o Rep("1", 5) \o <<" ">>

t4 == Rep("2", 4) \o SubSeq(UpperAlphabet, 5, 17) \o Tail4

ta == SubSeq(Alphabet, 1, 18) \o <<"t", "i", "d", "e">> \o Rep("3", 3)

tb == SubSeq(Alphabet, 1, 18) \o <<"d", "i", "e", "t">> \o Rep("4", 3)

Texts == {s19, s20, t1, t2, t3, t4, ta, tb}

\* the similarity of every two texts, computed once
Similarity == [a \in Texts, b \in Texts |-> _calculate_similarity(a, b)]

\* ----------------------------------------------------- deduplication
\* DeduplicationAgent.deduplicate on a content selection.  A dict is a
\* function from its keys, a list a sequence; positions are counted from 0
\* as enumerate counts them.

MaxTexts == 3   \* achievement and description texts in one selection

\* DeduplicationAgent(similarity_threshold=0.80)
similarity_threshold == Ratio(80, 100)

\* the places of a selection a text can stand in: key and persona
\* achievements of the first experience, key achievements of the second
\* experience, key achievements and structured_response.challenge of the
\* project, description of the work sample
Places == 1..6

\* the ways to lay k texts out over the places, list order kept
Placements(k) ==
  {p \in [1..k -> Places] :
     /\ \A n \in 1..k, o \in 1..k : n < o => p[n] <= p[o]
     /\ \A n \in 1..k, o \in 1..k : (n # o /\ p[n] = p[o]) => p[n] < 5}

\* the selection that holds the texts at the places given; an entry
\* without text is not selected
SelectionOf(texts, place) ==
  LET at(s) == SelectSeq([n \in DOMAIN texts |-> n],
                         LAMBDA n : place[n] = s)
      list(s) == [n \in DOMAIN at(s) |-> texts[at(s)[n]]]
      exp_1 == IF list(1) \o list(2) = <<>> THEN <<>>
               ELSE <<[source_id |-> "exp_1",
                       key_achievements |-> list(1),
                       persona_achievements |-> list(2)]>>
      exp_2 == IF list(3) = <<>> THEN <<>>
               ELSE <<[source_id |-> "exp_2",
                       key_achievements |-> list(3)]>>
      proj_1 == IF list(4) \o list(5) = <<>> THEN <<>>
                ELSE IF list(5) = <<>>
                THEN <<[source_id |-> "proj_1",
                        key_achievements |-> list(4)]>>
                ELSE <<[source_id |-> "proj_1",
                        key_achievements |-> list(4),
                        structured_response |->
                          [challenge |-> list(5)[1]]]>>
      sample_1 == IF list(6) = <<>> THEN <<>>
                  ELSE <<[source_id |-> "sample_1",
                          description |-> list(6)[1]]>>
  IN [selected_experiences |-> exp_1 \o exp_2,
      selected_projects |-> proj_1,
      selected_work_samples |-> sample_1]

\* the selection with one more experience, whose key_achievements list is
\* empty (List[str] admits it, and the selectors' JSON is not checked)
WithBareExperience(selection) ==
  [selection EXCEPT
     !.selected_experiences =
        Append(@, [source_id |-> "exp_3", key_achievements |-> <<>>])]

\* the selections of at most n texts deduplicate is applied to, each
\* without and with an experience that has no achievements
Selections(n) ==
  LET filled == UNION {{SelectionOf(texts, place) :
                          texts \in [1..k -> Texts],
                          place \in Placements(k)} :
                       k \in 0..n}
  IN filled \cup {WithBareExperience(selection) : selection \in filled}

\* the index tuple of an extracted text: (i, j), (i, j, 'persona'),
\* (i, key) or (i,).  len is the length of the tuple; key is the second
\* component when it is a string, item when it is an int
Index(len, entry, item, key) ==
  [len |-> len, entry |-> entry, item |-> item, key |-> key]

\* location: f'{section}[{i}].{field}[{j}]', f'{section}[{i}].{field}'
Location(section, entry, field, item) ==
  [section |-> section, entry |-> entry, field |-> field, item |-> item]

\* the achievements of one list of one entry, as _extract_all_texts
\* appends them
ListTexts(entry, i, field, section, priority, len) ==
  LET list == Get(entry, field, <<>>)
  IN [j \in DOMAIN list |->
        [text |-> list[j],
         location |-> Location(section, i - 1, field, j - 1),
         section |-> section,
         priority |-> priority,
         source_id |-> entry.source_id,
         index |-> Index(len, i - 1, j - 1, "")]]

\* the structured_response fields of a project: proj.get(...) or {}; the
\* fields that are present and not empty
StructuredTexts(proj, i) ==
  LET structured == Get(proj, "structured_response", <<>>)
      keys == SelectSeq(<<"challenge", "solution", "impact">>,
                        LAMBDA key : /\ key \in DOMAIN structured
                                     /\ structured[key] # <<>>)
  IN [n \in DOMAIN keys |->
        [text |-> structured[keys[n]],
         location |-> Location("project", i - 1,
                               "structured_response." \o keys[n], -1),
         section |-> "project",
         priority |-> 2,
         source_id |-> proj.source_id,
         index |-> Index(2, i - 1, -1, keys[n])]]

\* t['text'] and len(t['text']) > 20
Eligible(text) == text # <<>> /\ Len(text) > 20

\* DeduplicationAgent._extract_all_texts
_extract_all_texts(selection) ==
  LET exps == Get(selection, "selected_experiences", <<>>)
      projs == Get(selection, "selected_projects", <<>>)
      samples == Get(selection, "selected_work_samples", <<>>)
      texts ==
        Flatten([i \in DOMAIN exps |->
                   ListTexts(exps[i], i, "key_achievements",
                             "experience", 1, 2)
                   \o ListTexts(exps[i], i, "persona_achievements",
                                "experience", 1, 3)])
        \o Flatten([i \in DOMAIN projs |->
                      ListTexts(projs[i], i, "key_achievements",
                                "project", 2, 2)
                      \o StructuredTexts(projs[i], i)])
        \o [i \in DOMAIN samples |->
              [text |-> Get(samples[i], "description", <<>>),
               location |-> Location("work_sample", i - 1,
                                     "description", -1),
               section |-> "work_sample",
               priority |-> 3,
               source_id |-> samples[i].source_id,
               index |-> Index(1, i - 1, -1, "")]]
  IN SelectSeq(texts, LAMBDA t : Eligible(t.text))

\* similarity >= self.similarity_threshold
IsDuplicate(similarity) == AtLeast(similarity, similarity_threshold)

\* an order that puts the longer text first whatever the priority
SortsBefore_longest(x, y) == Len(x.text) > Len(y.text)

\* key=lambda x: (x['priority'], -len(x['text'])): x sorts before y
SortsBefore(x, y) ==
  \/ x.priority < y.priority
  \/ x.priority = y.priority /\ Len(x.text) > Len(y.text)

\* list.sort is stable: an item goes behind the items that do not sort
\* after it
RECURSIVE Sorted(_)
Sorted(items) ==
  IF items = <<>> THEN <<>>
  ELSE LET front == Sorted(SubSeq(items, 1, Len(items) - 1))
           x == items[Len(items)]
           stay == {n \in DOMAIN front : ~SortsBefore(x, front[n])}
           at == IF stay = {} THEN 0 ELSE Max(stay)
       IN SubSeq(front, 1, at) \o <<x>> \o SubSeq(front, at + 1, Len(front))

\* the greatest of a non-empty sequence of similarities
MaxSimilarity(sims) ==
  sims[CHOOSE n \in DOMAIN sims :
         \A o \in DOMAIN sims : AtLeast(sims[n], sims[o])]

\* the outer loop of _find_duplicates from text i on (i counted from 1)
RECURSIVE FindFrom(_, _, _, _)
FindFrom(texts, i, processed, found) ==
  IF i > Len(texts) THEN found
  ELSE IF i \in processed THEN FindFrom(texts, i + 1, processed, found)
  ELSE LET sim(j) == Similarity[texts[i].text, texts[j].text]
           matches == SelectSeq([j \in DOMAIN texts |-> j],
                                LAMBDA j : /\ j # i
                                           /\ j \notin processed
                                           /\ IsDuplicate(sim(j)))
       IN IF matches = <<>>
          THEN FindFrom(texts, i + 1, processed, found)
          ELSE LET all_items ==
                     Sorted(<<texts[i]>>
                            \o [n \in DOMAIN matches |-> texts[matches[n]]])
                   group ==
                     [kept |-> all_items[1],
                      removed |-> Tail(all_items),
                      similarity |->
                        MaxSimilarity([n \in DOMAIN matches |->
                                         sim(matches[n])])]
               IN FindFrom(texts, i + 1,
                           processed \cup Range(matches) \cup {i},
                           Append(found, group))

\* DeduplicationAgent._find_duplicates
_find_duplicates(texts) == FindFrom(texts, 1, {}, <<>>)

\* the items of a list that are left: j not in indices
Without(list, indices) ==
  LET left == SelectSeq([j \in DOMAIN list |-> j],
                        LAMBDA j : (j - 1) \notin indices)
  IN [n \in DOMAIN left |-> list[left[n]]]

\* a dict with one value replaced
With(d, key, value) == [k \in DOMAIN d |-> IF k = key THEN value ELSE d[k]]

\* bool(d.get(key)) for a list or a dict
Truthy(d, key) == key \in DOMAIN d /\ d[key] # <<>> /\ DOMAIN d[key] # {}

\* the entries of the list for which keep holds, in order
Cleaned(entries, keep(_)) == SelectSeq(entries, keep)

\* DeduplicationAgent._remove_from_experiences
_remove_from_experiences(experiences, removals) ==
  LET copy(i) ==
        LET exp == experiences[i]
            exp_removals == SelectSeq(removals,
                                      LAMBDA r : r.index.entry = i - 1)
            ach_indices == {r.index.item :
                              r \in {x \in Range(exp_removals) :
                                       x.index.len = 2}}
            persona_indices == {r.index.item :
                                  r \in {x \in Range(exp_removals) :
                                           x.index.len = 3}}
            keyed == IF "key_achievements" \in DOMAIN exp
                     THEN With(exp, "key_achievements",
                               Without(exp.key_achievements, ach_indices))
                     ELSE exp
        IN IF exp_removals = <<>> THEN exp
           ELSE IF "persona_achievements" \in DOMAIN keyed
           THEN With(keyed, "persona_achievements",
                     Without(keyed.persona_achievements, persona_indices))
           ELSE keyed
  IN Cleaned([i \in DOMAIN experiences |-> copy(i)],
             LAMBDA e : \/ Truthy(e, "key_achievements")
                        \/ Truthy(e, "persona_achievements"))

\* DeduplicationAgent._remove_from_projects: the structured response
\* fields are left as they are
_remove_from_projects(projects, removals) ==
  LET copy(i) ==
        LET proj == projects[i]
            proj_removals == SelectSeq(removals,
                                       LAMBDA r : r.index.entry = i - 1)
            ach_indices == {r.index.item :
                              r \in {x \in Range(proj_removals) :
                                       x.index.key = ""}}
        IN IF proj_removals # <<>> /\ "key_achievements" \in DOMAIN proj
           THEN With(proj, "key_achievements",
                     Without(proj.key_achievements, ach_indices))
           ELSE proj
  IN Cleaned([i \in DOMAIN projects |-> copy(i)],
             LAMBDA p : \/ Truthy(p, "key_achievements")
                        \/ Truthy(p, "structured_response"))

\* DeduplicationAgent._remove_from_work_samples
_remove_from_work_samples(samples, removals) ==
  Without(samples, {r.index.entry : r \in Range(removals)})

\* DeduplicationAgent._remove_duplicates
_remove_duplicates(selection, dups) ==
  LET to_remove ==
        Flatten([g \in DOMAIN dups |->
                   [n \in DOMAIN dups[g].removed |->
                      [section |-> dups[g].removed[n].section,
                       location |-> dups[g].removed[n].location,
                       index |-> dups[g].removed[n].index]]])
      of(section) == SelectSeq(to_remove, LAMBDA r : r.section = section)
      exps == IF of("experience") = <<>> THEN selection
              ELSE With(selection, "selected_experiences",
                        _remove_from_experiences(
                          selection.selected_experiences, of("experience")))
      projs == IF of("project") = <<>> THEN exps
               ELSE With(exps, "selected_projects",
                         _remove_from_projects(exps.selected_projects,
                                               of("project")))
  IN IF of("work_sample") = <<>> THEN projs
     ELSE With(projs, "selected_work_samples",
               _remove_from_work_samples(projs.selected_work_samples,
                                         of("work_sample")))

\* DeduplicationAgent._count_removals
RECURSIVE _count_removals(_)
_count_removals(dups) ==
  IF dups = <<>> THEN 0
  ELSE Len(Head(dups).removed) + _count_removals(Tail(dups))

\* f"{similarity:.0%}": the per cent nearest to the similarity
Percent(similarity) ==
  (200 * similarity.num + similarity.den) \div (2 * similarity.den)

\* deduplicated['deduplication_summary'] = {...}
deduplication_summary(dups) ==
  [duplicates_found |-> Len(dups),
   duplicates_removed |-> _count_removals(dups),
   duplicate_details |->
     [g \in DOMAIN dups |->
        [kept |-> dups[g].kept.location,
         removed |-> [n \in DOMAIN dups[g].removed |->
                        dups[g].removed[n].location],
         similarity |-> Percent(dups[g].similarity)]]]

\* deduplicate(content_selection) is called
Deduplicate ==
  /\ dedup_pc = "idle"
  /\ \E selection \in Selections(MaxTexts) :
       content_selection' = selection
  /\ dedup_pc' = "extract"
  /\ UNCHANGED <<pvars, kvars, fvars, svars, tvars, nvars, all_texts, duplicates, deduplicated>>

\* all_texts = self._extract_all_texts(content_selection)
ExtractAllTexts ==
  /\ dedup_pc = "extract"
  /\ all_texts' = _extract_all_texts(content_selection)
  /\ dedup_pc' = "find"
  /\ UNCHANGED <<pvars, kvars, fvars, svars, tvars, nvars, content_selection, duplicates,
                 deduplicated>>

\* duplicates = self._find_duplicates(all_texts); without duplicates the
\* selection is returned as it came
FindDuplicates ==
  /\ dedup_pc = "find"
  /\ duplicates' = _find_duplicates(all_texts)
  /\ IF duplicates' = <<>>
     THEN /\ deduplicated' = content_selection
          /\ dedup_pc' = "returned"
     ELSE /\ dedup_pc' = "remove"
          /\ UNCHANGED deduplicated
  /\ UNCHANGED <<pvars, kvars, fvars, svars, tvars, nvars, content_selection, all_texts>>

\* deduplicated = self._remove_duplicates(content_selection, duplicates)
RemoveDuplicates ==
  /\ dedup_pc = "remove"
  /\ deduplicated' = _remove_duplicates(content_selection, duplicates)
  /\ dedup_pc' = "report"
  /\ UNCHANGED <<pvars, kvars, fvars, svars, tvars, nvars, content_selection, all_texts,
                 duplicates>>

\* the summary is added and the deduplicated selection returned
AddSummary ==
  /\ dedup_pc = "report"
  /\ deduplicated' =
       deduplicated
       @@ ("deduplication_summary" :> deduplication_summary(duplicates))
  /\ dedup_pc' = "returned"
  /\ UNCHANGED <<pvars, kvars, fvars, svars, tvars, nvars, content_selection, all_texts,
                 duplicates>>

DedupNext ==
  \/ Deduplicate \/ ExtractAllTexts \/ FindDuplicates \/ RemoveDuplicates
  \/ AddSummary

\* DeduplicationAgent is built on its own by ParallelContentSelector
DedupInit == Init /\ variant = "enhanced"

DedupSpec == DedupInit /\ [][DedupNext]_vars

\* ------------------------------------------------ structural validation
\* perform_structural_validation applied to a draft and a selection

\* what the source_id of a draft entry can be: absent, empty, that of a
\* selected experience, that of a selected project, one that is made up
DraftSources == {NoSource, "", "exp_1", "proj_1", "exp_9"}

\* the achievements lists of an experience entry: strings or dicts
DraftAchievements ==
  {<<>>,
   <<[str |-> "achievement"]>>,
   <<[str |-> "achievement"], [text |-> "achievement"]>>,
   <<[text |-> "achievement", source_id |-> "exp_1"]>>,
   <<[text |-> "achievement", source_id |-> "exp_9"]>>}

\* the experience entries of a draft
ExperienceEntries ==
  {WithSource([company |-> "company", achievements |-> achievements],
              source_id) :
     source_id \in DraftSources \ {""}, achievements \in DraftAchievements}

\* the project entries of a draft
ProjectEntries ==
  {WithSource([title |-> "title"], source_id) : source_id \in DraftSources}

\* the lists of at most n of the entries
ListsOf(entries, n) == UNION {[1..k -> entries] : k \in 0..n}

\* the drafts the validation is applied to: experience entries, at most
\* one project, at most one work sample and at most one publication (the
\* schemas WorkSample and Publication have no source_id)
Drafts ==
  {ResumeDraft(experience, bulleted_projects, work_samples, publications) :
     experience \in ListsOf(ExperienceEntries, MaxEntries),
     bulleted_projects \in ListsOf(ProjectEntries, 1),
     work_samples \in ListsOf({[title |-> "title"]}, 1),
     publications \in ListsOf({[title |-> "title"]}, 1)}

\* the selections the validation is applied to
ValidatorSelections ==
  {ContentSelectionOf(selected_experiences, selected_projects) :
     selected_experiences \in ListsOf({[source_id |-> "exp_1"]}, 1),
     selected_projects \in ListsOf({[source_id |-> "proj_1"]}, 1)}

\* perform_structural_validation(resume_draft, content_selection) is called
PerformStructuralValidation ==
  /\ validator_pc = "idle"
  /\ \E draft \in Drafts, selection \in ValidatorSelections :
       /\ validator_draft' = draft
       /\ validator_selection' = selection
  /\ validator_pc' = "sources"
  /\ UNCHANGED <<pvars, kvars, fvars, dvars, tvars, nvars, validator_sources, issues>>

\* "Build set of valid source IDs"
BuildValidSources ==
  /\ validator_pc = "sources"
  /\ validator_sources' = valid_sources(validator_selection)
  /\ validator_pc' = "check"
  /\ UNCHANGED <<pvars, kvars, fvars, dvars, tvars, nvars, validator_draft,
                 validator_selection, issues>>

\* "Check experiences", "Check projects"; return issues
CheckEntries ==
  /\ validator_pc = "check"
  /\ issues' = perform_structural_validation(validator_draft,
                                             validator_selection)
  /\ validator_pc' = "returned"
  /\ UNCHANGED <<pvars, kvars, fvars, dvars, tvars, nvars, validator_draft,
                 validator_selection, validator_sources>>

StructuralNext ==
  PerformStructuralValidation \/ BuildValidSources \/ CheckEntries

\* the validator is called by the archive orchestrator
StructuralInit == Init /\ variant = "complete"

StructuralSpec == StructuralInit /\ [][StructuralNext]_vars

\* ------------------------------------------------- date standardization
\* date_formatter.standardize_date; a character outside ASCII is written
\* by its Unicode name

DigitChars == <<"0", "1", "2", "3", "4", "5", "6", "7", "8", "9">>

\* \d, for the characters of the inputs
Digits == Range(DigitChars)

\* [A-Za-z]
Letters == Range(Alphabet) \cup Range(UpperAlphabet)

\* \w, for the characters of the inputs
WordChars == Letters \cup Digits \cup {"_"}

\* \s, for the characters of the inputs
Blanks == {" "}

\* str.upper of one character
UpperChar(c) ==
  IF \E k \in DOMAIN Alphabet : Alphabet[k] = c
  THEN UpperAlphabet[CHOOSE k \in DOMAIN Alphabet : Alphabet[k] = c]
  ELSE c

\* str.capitalize: the first character upper case, the rest lower case
capitalize(text) ==
  [n \in DOMAIN text |-> IF n = 1 THEN UpperChar(text[1])
                         ELSE lower(text)[n]]

\* text[:n]
Prefix(text, n) == SubSeq(text, 1, Min({n, Len(text)}))

\* the regular expressions: a position is the index of the next character
\* to match, NoMatch when the match has failed
NoMatch == 0

\* how many characters from position i on are in S
Run(text, i, S) ==
  LET stops == {n \in i..Len(text) : text[n] \notin S}
  IN IF stops = {} THEN Len(text) + 1 - i ELSE Min(stops) - i

\* S{n}
Exactly(text, i, S, n) ==
  IF i # NoMatch /\ Run(text, i, S) >= n THEN i + n ELSE NoMatch

\* S+ before something that is not in S
OneOrMore(text, i, S) ==
  IF i # NoMatch /\ Run(text, i, S) >= 1 THEN i + Run(text, i, S)
  ELSE NoMatch

\* S* before something that is not in S
ZeroOrMore(text, i, S) ==
  IF i # NoMatch THEN i + Run(text, i, S) ELSE NoMatch

\* S{1,2} before something that is not in S
OneOrTwo(text, i, S) ==
  IF i # NoMatch /\ Run(text, i, S) >= 1
  THEN i + Min({2, Run(text, i, S)}) ELSE NoMatch

\* one of the words, which have the same length
Literal(text, i, words) ==
  LET n == Len(CHOOSE w \in words : TRUE)
  IN IF i # NoMatch /\ i + n - 1 <= Len(text)
          /\ SubSeq(text, i, i + n - 1) \in words
     THEN i + n ELSE NoMatch

\* one of the words under re.IGNORECASE
LiteralIgnoreCase(text, i, words) ==
  Literal(lower(text), i, {lower(w) : w \in words})

\* $
AtEnd(text, i) == i # NoMatch /\ i = Len(text) + 1

\* \s*-\s*
Hyphen(text, i) ==
  ZeroOrMore(text, Literal(text, ZeroOrMore(text, i, Blanks), {<<"-">>}), Blanks)

Present == <<"P", "r", "e", "s", "e", "n", "t">>

present == <<"p", "r", "e", "s", "e", "n", "t">>

Current == <<"C", "u", "r", "r", "e", "n", "t">>

current == <<"c", "u", "r", "r", "e", "n", "t">>

\* [A-Z][a-z]{2} \d{4}
MonYear(text, i) ==
  Exactly(text,
          Literal(text,
                  Exactly(text,
                          Exactly(text, i, Range(UpperAlphabet), 1),
                          Range(Alphabet), 2),
                  {<<" ">>}),
          Digits, 4)

\* "Already in correct format?":
\* ^[A-Z][a-z]{2} \d{4} - ([A-Z][a-z]{2} \d{4}|Present)$
AlreadyCorrect(text) ==
  LET dash == Literal(text, MonYear(text, 1), {<<" ", "-", " ">>})
  IN AtEnd(text, MonYear(text, dash))
       \/ AtEnd(text, Literal(text, dash, {Present}))

\* re.sub(r'\b(Current|current)\b', 'Present', date_str)
SubCurrent(text) ==
  LET boundary(n) ==
        n < 1 \/ n > Len(text) \/ text[n] \notin WordChars
      found(k) ==
        /\ k + 6 <= Len(text)
        /\ SubSeq(text, k, k + 6) \in {Current, current}
        /\ boundary(k - 1)
        /\ boundary(k + 7)
  IN [n \in DOMAIN text |->
        IF \E k \in DOMAIN text : found(k) /\ n \in k..(k + 6)
        THEN Present[n + 1 - CHOOSE k \in DOMAIN text :
                                 found(k) /\ n \in k..(k + 6)]
        ELSE text[n]]

\* "Normalize dashes: em-dash, en-dash -> hyphen", and the minus sign
NormalizeDashes(text) ==
  [n \in DOMAIN text |->
     IF text[n] \in {"EN DASH", "EM DASH", "MINUS SIGN"} THEN "-"
     ELSE text[n]]

MONTH_ABBREV ==
  (<<"j", "a", "n", "u", "a", "r", "y">> :> <<"J", "a", "n">>) @@
  (<<"f", "e", "b", "r", "u", "a", "r", "y">> :> <<"F", "e", "b">>) @@
  (<<"m", "a", "r", "c", "h">> :> <<"M", "a", "r">>) @@
  (<<"a", "p", "r", "i", "l">> :> <<"A", "p", "r">>) @@
  (<<"m", "a", "y">> :> <<"M", "a", "y">>) @@
  (<<"j", "u", "n", "e">> :> <<"J", "u", "n">>) @@
  (<<"j", "u", "l", "y">> :> <<"J", "u", "l">>) @@
  (<<"a", "u", "g", "u", "s", "t">> :> <<"A", "u", "g">>) @@
  (<<"s", "e", "p", "t", "e", "m", "b", "e", "r">> :> <<"S", "e", "p">>) @@
  (<<"o", "c", "t", "o", "b", "e", "r">> :> <<"O", "c", "t">>) @@
  (<<"n", "o", "v", "e", "m", "b", "e", "r">> :> <<"N", "o", "v">>) @@
  (<<"d", "e", "c", "e", "m", "b", "e", "r">> :> <<"D", "e", "c">>) @@
  (<<"j", "a", "n">> :> <<"J", "a", "n">>) @@
  (<<"f", "e", "b">> :> <<"F", "e", "b">>) @@
  (<<"m", "a", "r">> :> <<"M", "a", "r">>) @@
  (<<"a", "p", "r">> :> <<"A", "p", "r">>) @@
  (<<"j", "u", "n">> :> <<"J", "u", "n">>) @@
  (<<"j", "u", "l">> :> <<"J", "u", "l">>) @@
  (<<"a", "u", "g">> :> <<"A", "u", "g">>) @@
  (<<"s", "e", "p">> :> <<"S", "e", "p">>) @@
  (<<"o", "c", "t">> :> <<"O", "c", "t">>) @@
  (<<"n", "o", "v">> :> <<"N", "o", "v">>) @@
  (<<"d", "e", "c">> :> <<"D", "e", "c">>)

\* a lookup that leaves the month as it was written
MonthAbbr_as_written(month) == month

\* MONTH_ABBREV.get(month.lower(), month[:3].capitalize())
MonthAbbr(month) ==
  IF lower(month) \in DOMAIN MONTH_ABBREV THEN MONTH_ABBREV[lower(month)]
  ELSE capitalize(Prefix(month, 3))

\* int of a text of digits
IntOf(text) ==
  LET value(c) == (CHOOSE k \in DOMAIN DigitChars : DigitChars[k] = c) - 1
      RECURSIVE of(_)
      of(n) == IF n = 0 THEN 0 ELSE 10 * of(n - 1) + value(text[n])
  IN of(Len(text))

\* datetime(2000, month, 1).strftime('%b')
MonthNames ==
  <<<<"J", "a", "n">>,
    <<"F", "e", "b">>,
    <<"M", "a", "r">>,
    <<"A", "p", "r">>,
    <<"M", "a", "y">>,
    <<"J", "u", "n">>,
    <<"J", "u", "l">>,
    <<"A", "u", "g">>,
    <<"S", "e", "p">>,
    <<"O", "c", "t">>,
    <<"N", "o", "v">>,
    <<"D", "e", "c">>>>

\* datetime(2000, month, 1) raises ValueError unless month is in 1..12
ValidMonth(month) == month \in DOMAIN MonthNames

\* "Pattern 1: YYYY-YYYY or YYYY - YYYY": ^(\d{4})\s*-\s*(\d{4})$
Pattern1(text) ==
  AtEnd(text, Exactly(text, Hyphen(text, Exactly(text, 1, Digits, 4)),
                      Digits, 4))

\* "Pattern 2: YYYY - Present": ^(\d{4})\s*-\s*(Present|present)
Pattern2(text) ==
  LiteralIgnoreCase(text, Hyphen(text, Exactly(text, 1, Digits, 4)),
                    {Present, present}) # NoMatch

\* ([A-Za-z]+)\s+(\d{4}) from position i on: where the month ends, where
\* the year starts, and where the match ends
MonthYear(text, i) ==
  LET month == OneOrMore(text, i, Letters)
      year == OneOrMore(text, month, Blanks)
  IN [month |-> month, year |-> year,
      end |-> Exactly(text, year, Digits, 4)]

\* "Pattern 3: Month YYYY - Month YYYY":
\* ^([A-Za-z]+)\s+(\d{4})\s*-\s*([A-Za-z]+)\s+(\d{4})$
Pattern3(text) ==
  AtEnd(text,
        MonthYear(text, Hyphen(text, MonthYear(text, 1).end)).end)

\* "Pattern 4: Month YYYY - Present":
\* ^([A-Za-z]+)\s+(\d{4})\s*-\s*(Present|present)
Pattern4(text) ==
  LiteralIgnoreCase(text, Hyphen(text, MonthYear(text, 1).end),
                    {Present, present}) # NoMatch

\* (\d{1,2})/(\d{4}) from position i on: where the month ends and where
\* the match ends
SlashYear(text, i) ==
  LET month == OneOrTwo(text, i, Digits)
  IN [month |-> month,
      end |-> Exactly(text, Literal(text, month, {<<"/">>}), Digits, 4)]

\* "Pattern 5: MM/YYYY - MM/YYYY":
\* ^(\d{1,2})/(\d{4})\s*-\s*(\d{1,2})/(\d{4})$
Pattern5(text) ==
  AtEnd(text,
        SlashYear(text, Hyphen(text, SlashYear(text, 1).end)).end)

\* "Pattern 6: Just YYYY": ^\d{4}$
Pattern6(text) == AtEnd(text, Exactly(text, 1, Digits, 4))

\* "Pattern 7: Just Month YYYY": ^([A-Za-z]+)\s+(\d{4})$
Pattern7(text) == AtEnd(text, MonthYear(text, 1).end)

Dash == <<" ", "-", " ">>

\* the patterns tried in turn on the text with Current and the dashes
\* normalized, down to "Fallback: return original with warning"
MatchPatterns(text) ==
  LET year(i) == SubSeq(text, i, i + 3)
      start == MonthYear(text, 1)
      end == MonthYear(text, Hyphen(text, start.end))
      start_month == MonthAbbr(SubSeq(text, 1, start.month - 1))
      from == SlashYear(text, 1)
      to == SlashYear(text, Hyphen(text, from.end))
      start_month_num == IntOf(SubSeq(text, 1, from.month - 1))
      end_month_num == IntOf(SubSeq(text, Hyphen(text, from.end),
                                     to.month - 1))
  IN IF Pattern1(text)
     THEN Returned(<<"J", "a", "n", " ">> \o year(1) \o Dash
                     \o <<"D", "e", "c", " ">> \o year(Len(text) - 3))
     ELSE IF Pattern2(text)
     THEN Returned(<<"J", "a", "n", " ">> \o year(1) \o Dash \o Present)
     ELSE IF Pattern3(text)
     THEN Returned(start_month \o <<" ">> \o year(start.year) \o Dash
                     \o MonthAbbr(SubSeq(text, Hyphen(text, start.end),
                                          end.month - 1))
                     \o <<" ">> \o year(end.year))
     ELSE IF Pattern4(text)
     THEN Returned(start_month \o <<" ">> \o year(start.year) \o Dash
                     \o Present)
     ELSE IF Pattern5(text)
     THEN IF ValidMonth(start_month_num) /\ ValidMonth(end_month_num)
          THEN Returned(MonthNames[start_month_num] \o <<" ">>
                          \o year(from.month + 1) \o Dash
                          \o MonthNames[end_month_num] \o <<" ">>
                          \o year(to.month + 1))
          ELSE Raised(<<"ValueError">>)
     ELSE IF Pattern6(text)
     THEN Returned(text)
     ELSE IF Pattern7(text)
     THEN Returned(start_month \o <<" ">> \o year(start.year))
     ELSE Returned(text)

\* standardize_date
standardize_date(date) ==
  IF date = <<>> THEN Returned(<<>>)
  ELSE IF AlreadyCorrect(strip(date)) THEN Returned(strip(date))
  ELSE MatchPatterns(NormalizeDashes(SubCurrent(strip(date))))

\* the dates standardize_date is applied to: blanks, a start, a dash and
\* an end
Leads == {<<>>, <<" ">>}

Starts ==
  {<<>>,
   <<"2", "0", "1", "9">>,
   <<"O", "c", "t", " ", "2", "0", "1", "9">>,
   <<"o", "c", "t", "o", "b", "e", "r", " ", "2", "0", "1", "9">>,
   <<"S", "e", "p", "t", " ", "2", "0", "1", "9">>,
   <<"0", "1", "/", "2", "0", "2", "0">>,
   <<"1", "3", "/", "2", "0", "2", "0">>,
   <<"0", "/", "2", "0", "2", "0">>,
   <<"C", "u", "r", "r", "e", "n", "t">>,
   <<"Q", "3", " ", "2", "0", "1", "9">>}

Separators ==
  {<<>>,
   <<"-">>,
   <<" ", "-", " ">>,
   <<" ", "EN DASH", " ">>,
   <<" ", "EM DASH", " ">>,
   <<" ", "t", "o", " ">>}

Ends ==
  {<<>>,
   <<"2", "0", "2", "5">>,
   <<"P", "r", "e", "s", "e", "n", "t">>,
   <<"p", "r", "e", "s", "e", "n", "t">>,
   <<"C", "u", "r", "r", "e", "n", "t">>,
   <<"J", "a", "n", "u", "a", "r", "y", " ", "2", "0", "2", "5">>,
   <<"J", "a", "n", " ", "2", "0", "2", "5">>,
   <<"1", "2", "/", "2", "0", "2", "4">>,
   <<"0", "0", "/", "2", "0", "2", "4">>,
   <<"P", "r", "e", "s", "e", "n", "t", "l", "y">>}

Dates ==
  {lead \o start \o separator \o end :
     lead \in Leads, start \in Starts, separator \in Separators,
     end \in Ends}

\* standardize_date(date_str) is called
StandardizeDate ==
  /\ date_pc = "idle"
  /\ \E date \in Dates :
       /\ date_input' = date
       /\ date_str' = date
  /\ date_pc' = "entered"
  /\ UNCHANGED <<pvars, kvars, fvars, dvars, svars, nvars, date_result>>

\* `if not date_str: return ""`; strip; "Already in correct format? Return
\* as-is"; normalize Current and the dashes
NormalizeDate ==
  /\ date_pc = "entered"
  /\ IF date_str = <<>>
     THEN /\ date_result' = Returned(<<>>)
          /\ date_pc' = "returned"
          /\ UNCHANGED date_str
     ELSE IF AlreadyCorrect(strip(date_str))
     THEN /\ date_result' = Returned(strip(date_str))
          /\ date_pc' = "returned"
          /\ date_str' = strip(date_str)
     ELSE /\ date_str' = NormalizeDashes(SubCurrent(strip(date_str)))
          /\ date_pc' = "patterns"
          /\ UNCHANGED date_result
  /\ UNCHANGED <<pvars, kvars, fvars, dvars, svars, nvars, date_input>>

\* patterns 1 to 7 and the fallback
TryPatterns ==
  /\ date_pc = "patterns"
  /\ date_result' = MatchPatterns(date_str)
  /\ date_pc' = IF MatchPatterns(date_str).raised THEN "raised"
                ELSE "returned"
  /\ UNCHANGED <<pvars, kvars, fvars, dvars, svars, nvars, date_input, date_str>>

DateNext == StandardizeDate \/ NormalizeDate \/ TryPatterns

\* dates are standardized for the selection of the enhanced orchestrator
DateInit == Init /\ variant = "enhanced"

DateSpec == DateInit /\ [][DateNext]_vars

\* ------------------------------------------------ schema transformation
\* SchemaTransformer.transform_full_content_selection applied to a
\* selection, and applied again to what it returned

\* str.startswith
StartsWith(text, prefix) ==
  Len(text) >= Len(prefix) /\ SubSeq(text, 1, Len(prefix)) = prefix

\* str.replace(old, new): every occurrence, from the left
RECURSIVE replace(_, _, _)
replace(text, old, new) ==
  IF text = <<>> THEN <<>>
  ELSE IF StartsWith(text, old)
  THEN new \o replace(SubSeq(text, Len(old) + 1, Len(text)), old, new)
  ELSE <<Head(text)>> \o replace(Tail(text), old, new)

\* a or b, for two strings
Or(a, b) == IF a # <<>> THEN a ELSE b

\* extract_year_from_date: re.search(r'\d{4}', date_str), the first run of
\* four digits.  <<>> stands for None (no match is empty).
extract_year_from_date(date) ==
  LET runs == {i \in 1..(Len(date) - 3) :
                 \A k \in 0..3 : date[i + k] \in Digits}
  IN IF runs = {} THEN <<>>
     ELSE SubSeq(date, Min(runs), Min(runs) + 3)

http ==
  <<"h", "t", "t", "p">>

https ==
  <<"h", "t", "t", "p", "s", ":", "/", "/">>

https_doi_org ==
  <<"h", "t", "t", "p", "s", ":", "/", "/", "d", "o", "i", ".", "o", "r",
    "g", "/">>

http_doi_org ==
  <<"h", "t", "t", "p", ":", "/", "/", "d", "o", "i", ".", "o", "r", "g",
    "/">>

\* url if url.startswith('http') else f"https://{url}"
WithScheme(url) == IF StartsWith(url, http) THEN url ELSE https \o url

\* SchemaTransformer.transform_education_entry
transform_education_entry(db_entry) ==
  [degree |-> Get(db_entry, "degree", <<>>),
   institution |-> Get(db_entry, "institution", <<>>),
   location |-> Get(db_entry, "location", <<>>),
   graduation |->
     extract_year_from_date(Get(db_entry, "graduation_date", <<>>)),
   details |-> Or(Get(db_entry, "details", <<>>),
                  Get(db_entry, "gpa", <<>>))]

\* SchemaTransformer._construct_publication_url
_construct_publication_url(db_entry) ==
  IF Get(db_entry, "url", <<>>) # <<>> THEN WithScheme(db_entry.url)
  ELSE IF Get(db_entry, "doi", <<>>) # <<>>
  THEN https_doi_org
         \o replace(replace(db_entry.doi, https_doi_org, <<>>),
                    http_doi_org, <<>>)
  ELSE <<>>

\* SchemaTransformer.transform_publication_entry
transform_publication_entry(db_entry) ==
  [title |-> Get(db_entry, "title", <<>>),
   authors |-> Get(db_entry, "authors", <<>>),
   journal |-> Get(db_entry, "venue", <<>>),
   year |-> extract_year_from_date(Get(db_entry, "date", <<>>)),
   url |-> _construct_publication_url(db_entry)]

\* url_fields of transform_contact_info
url_fields == {"linkedin", "github", "portfolio", "website"}

\* SchemaTransformer.transform_contact_info: contact.pop('links');
\* contact.update(links); the https:// prefix for the URL fields
transform_contact_info(db_contact) ==
  LET rest == [k \in DOMAIN db_contact \ {"links"} |-> db_contact[k]]
      contact == IF "links" \in DOMAIN db_contact
                 THEN db_contact.links @@ rest
                 ELSE db_contact
  IN [k \in DOMAIN contact |->
        IF k \in url_fields /\ contact[k] # <<>>
        THEN WithScheme(contact[k])
        ELSE contact[k]]

\* the value of tech is a list
IsList(tech) == "list" \in DOMAIN tech

\* SchemaTransformer.transform_work_sample
transform_work_sample(db_sample) ==
  LET sample == IF Get(db_sample, "url", <<>>) # <<>>
                THEN With(db_sample, "url", WithScheme(db_sample.url))
                ELSE db_sample
  IN IF "tech" \in DOMAIN sample /\ ~IsList(sample.tech)
     THEN With(sample, "tech",
               [list |-> IF sample.tech.str # <<>>
                         THEN <<sample.tech>> ELSE <<>>])
     ELSE sample

\* the entries with standardize_date applied to the dates they have
DatesStandardized(entries) ==
  [i \in DOMAIN entries |->
     IF "dates" \in DOMAIN entries[i]
     THEN With(entries[i], "dates",
               standardize_date(entries[i].dates).value)
     ELSE entries[i]]

\* standardize_date raises for the dates of one of the entries
DatesRaise(entries) ==
  \E i \in DOMAIN entries :
    /\ "dates" \in DOMAIN entries[i]
    /\ standardize_date(entries[i].dates).raised

\* the value at the key replaced by f of it, when the key is there
Mapped(d, key, f(_)) ==
  IF key \in DOMAIN d THEN With(d, key, f(d[key])) ELSE d

\* f applied to every entry of a list
Each(entries, f(_)) == [i \in DOMAIN entries |-> f(entries[i])]

\* SchemaTransformer.standardize_dates_in_selection
standardize_dates_in_selection(selection) ==
  Mapped(Mapped(selection, "selected_experiences", DatesStandardized),
         "selected_projects", DatesStandardized)

\* SchemaTransformer.transform_full_content_selection
transform_full_content_selection(selection) ==
  IF \/ DatesRaise(Get(selection, "selected_experiences", <<>>))
     \/ DatesRaise(Get(selection, "selected_projects", <<>>))
  THEN Raised(<<"ValueError">>)
  ELSE LET dated == standardize_dates_in_selection(selection)
           education ==
             Mapped(dated, "selected_education",
                    LAMBDA l : Each(l, transform_education_entry))
           publications ==
             Mapped(education, "selected_publications",
                    LAMBDA l : Each(l, transform_publication_entry))
           contact ==
             Mapped(publications, "contact_info", transform_contact_info)
       IN Returned(Mapped(contact, "selected_work_samples",
                          LAMBDA l : Each(l, transform_work_sample)))

\* the selections the transformation is applied to
\* the dates of an experience or a project
SelectionDates ==
  {<<"2", "0", "1", "9", "-", "2", "0", "2", "5">>,
   <<"O", "c", "t", " ", "2", "0", "1", "9", " ", "EN DASH", " ", "P",
    "r", "e", "s", "e", "n", "t">>,
   <<"1", "3", "/", "2", "0", "2", "0", " ", "-", " ", "1", "2", "/", "2",
    "0", "2", "4">>,
   <<"Q", "3", " ", "2", "0", "1", "9">>}

\* publication entries: with the field names of the database and with
\* those of the PDF
Publications ==
  {[title |-> <<"T">>, venue |-> <<"I", "E", "E", "E">>, date |-> <<"2",
    "0", "2", "4", "-", "0", "5">>, doi |-> <<"1", "0", ".", "1", "/",
    "x">>],
   [title |-> <<"T">>, venue |-> <<"I", "E", "E", "E">>, date |-> <<"M",
    "a", "y">>, doi |-> <<"h", "t", "t", "p", "s", ":", "/", "/", "d",
    "o", "i", ".", "o", "r", "g", "/", "1", "0", ".", "1", "/", "x">>],
   [title |-> <<"T">>, journal |-> <<"I", "E", "E", "E">>, year |-> <<"2",
    "0", "2", "4">>, url |-> <<"a", ".", "o", "r", "g", "/", "p">>],
   [title |-> <<"T">>, url |-> <<"h", "t", "t", "p", ":", "/", "/", "a",
    ".", "o", "r", "g", "/", "p">>]}

\* contact blocks: nested links, a link at both levels, no link
Contacts ==
  {[name |-> <<"J">>, links |-> [linkedin |-> <<"i", "n", ".", "c", "o",
    "m", "/", "j">>, github |-> <<"h", "t", "t", "p", "s", ":", "/",
    "/", "g", ".", "c", "o", "m", "/", "j">>]],
   [name |-> <<"J">>, linkedin |-> <<"i", "n", ".", "c", "o", "m", "/",
    "j">>, links |-> [linkedin |-> <<"i", "n", ".", "c", "o", "m", "/",
    "k">>]],
   [name |-> <<"J">>, website |-> <<>>]}

\* education entries
Educations ==
  {[degree |-> <<"M", "S">>, graduation_date |-> <<"M", "a", "y", " ",
    "2", "0", "1", "9">>, gpa |-> <<"3", ".", "9">>],
   [degree |-> <<"M", "S">>, graduation |-> <<"2", "0", "1", "9">>,
    details |-> <<"3", ".", "9">>]}

\* work samples: tech as a string, as a list, a URL without a scheme
WorkSamples ==
  {[source_id |-> <<"s">>, url |-> <<"a", ".", "i", "o">>,
    tech |-> [str |-> <<"g", "o">>]],
   [source_id |-> <<"s">>, url |-> <<>>, tech |-> [str |-> <<>>]],
   [source_id |-> <<"s">>, tech |-> [list |-> <<[str |-> <<"g", "o">>]>>]]}

\* the dict with the key added unless the option is empty
WithKey(d, key, option) ==
  IF option = <<>> THEN d ELSE d @@ (key :> option[1])

\* one of the values, or none
Optional(values) == {<<>>} \cup {<<v>> : v \in values}

RawSelections ==
  {WithKey(WithKey(WithKey(WithKey(WithKey(
     [selected_experiences |-> <<[source_id |-> <<"e">>, dates |-> date]>>],
     "selected_projects", projects),
     "selected_education", education),
     "selected_publications", publications),
     "contact_info", contact),
     "selected_work_samples", samples) :
   date \in SelectionDates,
   projects \in Optional({<<[source_id |-> <<"p">>]>>}),
   education \in Optional({<<e>> : e \in Educations}),
   publications \in Optional({<<p>> : p \in Publications}),
   contact \in Optional(Contacts),
   samples \in Optional({<<w>> : w \in WorkSamples})}

\* transform_full_content_selection(selection) is called and returns or
\* raises
TransformFullContentSelection ==
  /\ normalize_pc = "idle"
  /\ \E selection \in RawSelections :
       LET result == transform_full_content_selection(selection)
       IN /\ raw_selection' = selection
          /\ IF result.raised
             THEN /\ normalize_pc' = "raised"
                  /\ UNCHANGED transformed
             ELSE /\ normalize_pc' = "returned"
                  /\ transformed' = result.value
  /\ UNCHANGED <<pvars, kvars, fvars, dvars, svars, tvars, previous>>

\* what the call returned is transformed again
TransformAgain ==
  /\ normalize_pc = "returned"
  /\ LET result == transform_full_content_selection(transformed)
     IN /\ previous' = transformed
        /\ IF result.raised
           THEN /\ normalize_pc' = "raised"
                /\ UNCHANGED transformed
           ELSE /\ normalize_pc' = "returned again"
                /\ transformed' = result.value
  /\ UNCHANGED <<pvars, kvars, fvars, dvars, svars, tvars, raw_selection>>

NormalizeNext == TransformFullContentSelection \/ TransformAgain

\* the transformer is used by ParallelContentSelector
NormalizeInit == Init /\ variant = "enhanced"

NormalizeSpec == NormalizeInit /\ [][NormalizeNext]_vars

\* ------------------------------------------------------------ properties

\* run_phase2 is over after a validation that failed max_validation_retries
\* + 1 times in this run
ValidationExhausted ==
  /\ pc = "done"
  /\ hist.phase = 2
  /\ loc.verdict = "invalid"
  /\ hist.callsRun["validator"] > max_validation_retries

\* C1: with max_validation_retries = 2 and a validation that fails every
\* time, exactly three validation attempts occur and Phase 2 then proceeds
\* with warnings: it returns, with current_stage phase2_complete, instead
\* of raising.
C1_ExhaustionProceedsWithWarnings ==
  ValidationExhausted =>
    /\ hist.callsRun["validator"] = max_validation_retries + 1
    /\ hist.outcome = "phase2_complete"
    /\ state_file.data.current_stage = "phase2_complete"

\* generate_resume is over and no capability call has raised
FullRunOver ==
  /\ pc = "done"
  /\ args.entry = "generate_resume"
  /\ ~hist.capError

\* C2: a full pipeline run of ResumeOrchestrator in which every capability
\* call returns a result ends with the final document written and
\* current_stage completed, whatever the validation and QA verdicts were.
C2_FullRunCompletes ==
  (FullRunOver /\ variant # "dynamic") =>
    /\ artifacts.final # 0
    /\ state_file.data.current_stage = "completed"

\* Phase 1 is running on a key on which run_phase1 has completed before
Phase1Rerun ==
  /\ hist.phase1Done
  /\ hist.phase = 1
  /\ pc \in {"p1_ja", "p1_cs", "p1_end", "rec_file", "rec_state"}

\* C3: a second run of Phase 1 on the same state key performs no capability
\* call: job analysis and content selection are both skipped and their
\* recorded outputs are loaded.
C3_Phase1RerunCallsNothing ==
  Phase1Rerun =>
    /\ \A a \in Agents : hist.callsRun[a] = 0
    /\ pc \in {"p1_cs", "p1_end"} =>
         /\ loc.job_analysis # 0
         /\ loc.job_analysis = load_agent_output(outputs_dir, "job_analyzer")
    /\ pc = "p1_end" =>
         /\ loc.content_selection # 0
         /\ loc.content_selection =
              load_agent_output(outputs_dir, "content_selector")

\* C3 witness: the second run of Phase 1 has passed both tasks
C3_Witness ==
  /\ Phase1Rerun
  /\ pc = "p1_end"
  /\ hist.runs = 2

\* the stage of the agent's task was in completed_stages when the phase
\* now running (or last run) began
TaskStageComplete(a) == StageOf(a) \in hist.startCompleted

\* C4 as claimed: for every task of every phase, validation and QA
\* included, a task whose stage is already in completed_stages when its
\* phase is re-run is not invoked (no redraft being forced by the caller).
C4_EveryCompletedTaskSkipped ==
  \A a \in Agents :
    (hist.phase # 0 /\ TaskStageComplete(a) /\ ~args.force_redraft)
      => hist.callsRun[a] = 0

\* C4: for job analysis, content selection, draft and style refinement, a
\* task whose stage is already in completed_stages when its phase begins is
\* not invoked on the first pass of the phase (before any retry that a
\* failed validation or QA asks for, and for the draft unless a redraft is
\* forced); the recorded output is reloaded instead (for style refinement,
\* unless style editing is switched off, when the draft is kept).
\* Validation and QA are not skip-checked: a Phase 2 that reaches its end
\* has invoked validation, a Phase 3 that reaches its end has invoked QA.
C4_FirstPassReusesRecordedOutput ==
  /\ \A a \in {"job_analyzer", "content_selector"} :
       (hist.phase = 1 /\ TaskStageComplete(a)) => hist.callsRun[a] = 0
  /\ (hist.phase = 1 /\ TaskStageComplete("job_analyzer")
        /\ pc \in {"p1_cs", "p1_end"})
       => loc.job_analysis = load_agent_output(outputs_dir, "job_analyzer")
  /\ (hist.phase = 1 /\ TaskStageComplete("content_selector")
        /\ pc = "p1_end")
       => loc.content_selection =
            load_agent_output(outputs_dir, "content_selector")
  /\ (hist.phase = 2 /\ TaskStageComplete("resume_drafter")
        /\ loc.attempt = 0 /\ ~args.force_redraft)
       => /\ hist.callsRun["resume_drafter"] = 0
          /\ pc = "p2_validate" =>
               loc.resume_draft =
                 load_agent_output(outputs_dir, "resume_drafter")
  /\ (hist.phase = 3 /\ TaskStageComplete("voice_style_editor")
        /\ loc.attempt = 0)
       => /\ hist.callsRun["voice_style_editor"] = 0
          /\ (pc \in {"p3_ja", "p3_qa"} /\ ~args.skip_style_editing) =>
               loc.edited_resume =
                 load_agent_output(outputs_dir, "voice_style_editor")
  /\ pc = "p2_end" => hist.callsRun["validator"] >= 1
  /\ pc = "p3_end" => hist.callsRun["final_qa"] >= 1

\* C4 witness: Phase 3 is run again on a key whose style and QA stages are
\* complete and reaches its end without a style call and with a QA call
C4_Witness ==
  /\ hist.phase = 3
  /\ pc = "p3_end"
  /\ TaskStageComplete("voice_style_editor")
  /\ TaskStageComplete("final_qa")
  /\ ~args.skip_style_editing
  /\ hist.callsRun["voice_style_editor"] = 0
  /\ hist.callsRun["final_qa"] >= 1

\* the stages a state lists as complete
Completed(state) == Range(state.completed_stages)

\* C5: completed_stages only grows: no step removes a stage name from the
\* completed_stages of the stored state, nor from those of the state a
\* state manager holds in memory (recording, logging an error, marking
\* completion, running or re-running a phase, reloading from the store).
C5_CompletedStagesOnlyGrow ==
  [][/\ Completed(state_file.data) \subseteq Completed(state_file'.data)
     /\ (state_manager.live /\ state_manager'.live) =>
          Completed(state_manager.state)
            \subseteq Completed(state_manager'.state)]_vars

\* C5 witness: a later run has reloaded a state that lists stages and has
\* logged an error on it
C5_Witness ==
  /\ hist.runs = 2
  /\ state_manager.live
  /\ Len(state_manager.state.errors) > 0
  /\ Cardinality(Completed(state_manager.state)) >= 4
  /\ Completed(state_file.data) = Completed(state_manager.state)

\* the stage vocabulary in its order
StageOrder ==
  <<"initialized", "job_analysis_complete", "content_selection_complete",
    "phase1_complete", "draft_complete", "validation_complete",
    "phase2_complete", "style_editing_complete", "qa_complete",
    "phase3_complete", "completed">>

StageIndex(stage) == CHOOSE i \in DOMAIN StageOrder : StageOrder[i] = stage

\* C6: every change of the stored current_stage moves to a later stage of
\* the order initialized, job_analysis_complete, ..., completed, also during
\* validation retries, QA retries and re-runs of a phase.
C6_CurrentStageMovesForward ==
  [][(/\ state_file'.data.current_stage # state_file.data.current_stage
      /\ state_file.data.current_stage \in Range(StageOrder)
      /\ state_file'.data.current_stage \in Range(StageOrder))
       => StageIndex(state_file'.data.current_stage)
            > StageIndex(state_file.data.current_stage)]_vars

\* the states whose current_stage the claims speak of: the stored one and
\* the one a state manager holds
States == {state_file.data} \cup
          (IF state_manager.live THEN {state_manager.state} ELSE {})

\* C7 as claimed: whenever current_stage is not initialized it is in
\* completed_stages, for every stage of the vocabulary, phase1_complete,
\* phase2_complete, phase3_complete and completed included.
C7_CurrentStageIsCompleted ==
  \A st \in States :
    st.current_stage # "initialized" =>
      can_skip_stage(st, st.current_stage)

TaskStages == {StageOf(a) : a \in Agents}

\* C7: whenever current_stage is one of the six task stages
\* (job_analysis_complete, content_selection_complete, draft_complete,
\* validation_complete, style_editing_complete, qa_complete) it is in
\* completed_stages; phase1_complete, phase2_complete, phase3_complete and
\* completed become current_stage without being added to completed_stages.
C7_TaskStageIsCompleted ==
  \A st \in States :
    /\ st.current_stage \in TaskStages =>
         can_skip_stage(st, st.current_stage)
    /\ Completed(st) \subseteq TaskStages

\* C7 witness: a task stage is current and complete after the phase marker
\* before it was current
C7_Witness ==
  /\ state_file.data.current_stage = "draft_complete"
  /\ can_skip_stage(state_file.data, "draft_complete")
  /\ ~can_skip_stage(state_file.data, "phase1_complete")
  /\ hist.phase1Done

\* C8: in every reachable state current_stage, stored or in memory, is one
\* of the eleven names of the stage vocabulary.
C8_CurrentStageInVocabulary ==
  \A st \in States : st.current_stage \in Range(StageOrder)

\* C8 witness: run_phase1_dynamic has gone through its workflow
\* configuration step
C8_Witness ==
  /\ variant = "dynamic"
  /\ pc = "done"
  /\ args.entry \in {"run_phase1", "generate_resume"}
  /\ hist.phase = 1
  /\ hist.phase1Done
  /\ state_file.data.job_analysis # 0

\* the tasks invoked again by a re-run of the crashed phase although their
\* capability call had returned before the crash
Reinvoked == {a \in hist.prevReturned : hist.callsRun[a] > 0}

C10_OneSnapshotPerRecording ==
  \A a \in Agents : Len(outputs_dir[a]) = hist.recorded[a]

C12_OtherKeysUntouched ==
  /\ [](orchestrator.read \subseteq {orchestrator.for})
  /\ [][\A k \in Keys :
         k # orchestrator'.for => job_folders'[k] = job_folders[k]]_vars

\* the tasks whose selector raised
Failed == {i \in Selectors : selector_hist.returned[i].raised}

\* the result _select_*_async gives for a selector that raised error
EmptyResult(i, error) ==
  (Category(i) :> <<>>) @@ ("selection_notes" :> <<"Error", error>>)

\* the field of the aggregate that holds the selection of task i
Selection(i) ==
  CASE i = 1 -> aggregated.selected_experiences
    [] i = 2 -> aggregated.selected_projects
    [] i = 3 -> aggregated.selected_skills
    [] i = 4 -> aggregated.selected_publications
    [] i = 5 -> aggregated.selected_work_samples

\* C13: if exactly one of the five category tasks fails (any one, with any
\* error), gather still returns five results in task order, the four
\* others exactly as their selectors returned them and the failed one an
\* empty selection of its category whose selection_notes carry the error
\* text; no exception reaches _check_for_errors, and the aggregator
\* merges the five results without raising.
C13_OneFailureIsIsolated ==
  (Joined /\ Cardinality(Failed) = 1) =>
    /\ \A i \in Selectors :
         results[i] =
           IF i \in Failed
           THEN EmptyResult(i, selector_hist.returned[i].value)
           ELSE selector_hist.returned[i].value
    /\ select_pc # "raised"
    /\ select_pc = "aggregated" =>
         \A i \in Selectors :
           Selection(i) = IF i \in Failed THEN <<>>
                          ELSE selector_hist.returned[i].value[Category(i)]

\* C13 witness: the skills selector alone has failed, after its API call
\* raised three times, and the aggregate is made
C13_Witness ==
  /\ select_pc = "aggregated"
  /\ Failed = {3}
  /\ selector_hist.returned[3].value = "APIError"
  /\ aggregated.selected_experiences = <<1>>
  /\ aggregated.selected_skills = <<>>

\* C14: no partial join: the aggregator is never invoked while one of the
\* five tasks is still pending or running; when aggregation begins every
\* task has returned or failed.
C14_NoPartialJoin ==
  select_pc \in {"aggregate", "aggregated"} =>
    /\ \A i \in Selectors : tasks[i] = "done"
    /\ Len(selector_hist.order) = 5

\* C14 witness: aggregation is about to begin after two tasks failed
C14_Witness ==
  /\ select_pc = "aggregate"
  /\ Cardinality(Failed) = 2
  /\ \A i \in Selectors : tasks[i] = "done"

\* C15: the five tasks run in parallel, one unit of concurrency per task:
\* while the capability call of one task is in flight, a task that has not
\* started can start.
C15_TasksRunInParallel ==
  \A i, j \in Selectors :
    (tasks[i] = "running" /\ tasks[j] = "pending") => ENABLED StartTask(j)

\* C16: capability errors are never silently swallowed: for every API call
\* that has raised, also one recovered by a retry or by the per-task
\* isolation of the fan-out, an entry was appended to the error list of
\* the state.
C16_EveryFailureLogged ==
  /\ Len(state_manager.state.errors) >= selector_hist.failures
  /\ Len(state_file.data.errors) >= selector_hist.failures

\* C17: in every Phase 2 attempt the steps run in the order draft,
\* structural pre-check, full validation: the validator is never invoked on
\* a draft that perform_structural_validation has not been run on after
\* the draft was obtained.
C17_ValidatedOnlyAfterPrecheck ==
  hist.phase = 2 => ~hist.validatedUnchecked

\* C18: the structural pre-check short-circuits broken drafts: the
\* validator is not invoked on a draft for which the pre-check of the
\* attempt has reported at least one critical issue.
C18_BrokenDraftNotValidated ==
  hist.phase = 2 => ~hist.validatedBroken

\* Phase 2 is inside its loop, in an attempt after the first
Retrying ==
  /\ hist.phase = 2
  /\ loc.attempt > 0
  /\ pc \in {"p2_draft", "p2_precheck", "p2_validate", "p2_check",
             "rec_file", "rec_state"}

\* the loop holds the draft of the attempt: the drafter has returned
HoldsDraft ==
  \/ pc \in {"p2_precheck", "p2_validate", "p2_check"}
  \/ pc \in {"rec_file", "rec_state"}

\* the validations of this run that have failed and been followed by a
\* retry
FailedValidations ==
  IF pc = "p2_check" \/ (pc \in {"rec_file", "rec_state"}
                         /\ rec.agent = "validator")
  THEN hist.callsRun["validator"] - 1
  ELSE hist.callsRun["validator"]

\* C19: on a failed validation with attempts remaining Phase 2 forces
\* regeneration: the next attempt invokes the drafter again and does not
\* reuse the recorded draft, so every validation after the first of a run
\* examines a draft generated after the failed validation before it, and
\* the attempt counter goes up by exactly one per failed validation.
C19_RetryRegeneratesDraft ==
  /\ Retrying =>
       /\ loc.attempt = FailedValidations
       /\ loc.attempt <= max_validation_retries
       /\ HoldsDraft =>
            /\ loc.resume_draft > hist.failedAt
            /\ loc.resume_draft = hist.calls["resume_drafter"]
            /\ hist.callsRun["resume_drafter"] >= loc.attempt
  /\ (hist.phase = 2 /\ pc \in {"p2_draft", "p2_precheck", "p2_validate"})
       => loc.attempt = hist.callsRun["validator"]

\* C19 witness: the second retry of a run that began with a recorded draft
\* is about to validate its newly generated draft
C19_Witness ==
  /\ Retrying
  /\ pc = "p2_validate"
  /\ loc.attempt = 2
  /\ TaskStageComplete("resume_drafter")
  /\ hist.callsRun["resume_drafter"] = 2
  /\ loc.resume_draft = 3

\* C20: in the QA loop of Phase 3, a QA that fails with a critical issue
\* while attempts remain is followed by a re-run of the style editor and
\* the next QA reviews the re-edited document; a QA that fails without a
\* critical issue, or with no attempt left, is not followed by another QA
\* and the document is accepted.
C20_QARetryRestyles ==
  hist.phase = 3 =>
    /\ ~hist.qaStale
    /\ ~hist.qaRetryNoCritical
    /\ (pc = "p3_end" /\ loc.verdict = "fail_critical")
         => loc.attempt = max_qa_retries
    /\ hist.callsRun["final_qa"] <= max_qa_retries + 1

\* C21: in one Phase 3 run the QA is invoked at least once and at most
\* max_qa_retries + 1 times, is not invoked again after a report with
\* status pass or pass_with_warnings, and once a QA has been invoked the
\* phase finishes at phase3_complete without raising (no capability call
\* raising), whatever the status of the last report.
C21_QALoopTerminates ==
  hist.phase = 3 =>
    /\ hist.callsRun["final_qa"] <= max_qa_retries + 1
    /\ (pc \in {"p3_qa", "p3_restyle"} /\ hist.callsRun["final_qa"] > 0)
         => loc.verdict \notin {"pass", "pass_with_warnings"}
    /\ pc = "p3_end" =>
         /\ hist.callsRun["final_qa"] >= 1
         /\ ENABLED Phase3End
    /\ hist.outcome = "phase3_complete" =>
         /\ hist.callsRun["final_qa"] >= 1
         /\ pc = "done" => state_file.data.current_stage = "phase3_complete"
    /\ (pc = "done" /\ hist.outcome = "raised" /\ ~hist.capError)
         => hist.callsRun["final_qa"] = 0

\* C21 witness: Phase 3 has returned at phase3_complete after
\* max_qa_retries + 1 reviews of which the last failed
C21_Witness ==
  /\ hist.phase = 3
  /\ pc = "done"
  /\ hist.outcome = "phase3_complete"
  /\ hist.callsRun["final_qa"] = max_qa_retries + 1
  /\ loc.verdict \in {"fail", "fail_critical"}
  /\ state_file.data.current_stage = "phase3_complete"

\* C22: when Phase 3 is run with skip_style_editing set, the style editor
\* is not invoked at any point of that run, QA retries included.
C22_SkipFlagSkipsStyleEditor ==
  (hist.phase = 3 /\ args.skip_style_editing)
    => hist.callsRun["voice_style_editor"] = 0

\* the two texts are near-duplicates of each other
NearDuplicates(a, b) ==
  IsDuplicate(Similarity[a, b]) /\ IsDuplicate(Similarity[b, a])

\* the texts the experiences of a selection hold
ExperienceTexts(selection) ==
  UNION {Range(Get(exp, "key_achievements", <<>>))
           \cup Range(Get(exp, "persona_achievements", <<>>)) :
         exp \in Range(selection.selected_experiences)}

\* the texts the projects of a selection hold
ProjectTexts(selection) ==
  UNION {Range(Get(proj, "key_achievements", <<>>))
           \cup Range(Get(proj, "structured_response", <<>>)) :
         proj \in Range(selection.selected_projects)}

\* C23: deduplication priority invariant: when the selection holds an
\* experience item and a project item that are near-duplicates of each
\* other (similarity at or above 0.80 either way), the experience item is
\* retained whatever the lengths of the two texts: the lower-priority
\* duplicate is never kept while the higher-priority one is dropped.  The
\* text of the experience item is still held by the experiences of the
\* deduplicated selection, unless the project item is gone as well.
C23_PrimaryItemRetained ==
  dedup_pc = "returned" =>
    \A e \in Range(all_texts), p \in Range(all_texts) :
      (e.priority = 1 /\ p.priority = 2 /\ NearDuplicates(e.text, p.text))
        => \/ e.text \in ExperienceTexts(deduplicated)
           \/ p.text \notin ProjectTexts(deduplicated)

\* C24: deduplication threshold boundary: for a selection whose only
\* eligible items are two strings, one of them is removed from the
\* selection iff their similarity is at or above the threshold (0.80 by
\* default: a pair at 0.79 stays, a pair at 0.81 and a pair at exactly 0.80
\* lose one item).  The similarity of the pair is the one the matcher
\* gives in either order.
C24_ThresholdBoundary ==
  (dedup_pc = "returned" /\ Len(all_texts) = 2) =>
    LET a == all_texts[1].text
        b == all_texts[2].text
    IN Len(_extract_all_texts(deduplicated)) = 1
         <=> (IsDuplicate(Similarity[a, b]) \/ IsDuplicate(Similarity[b, a]))

\* the members of a duplicate group
Members(group) == <<group.kept>> \o group.removed

\* the locations of the items of a list
Locations(items) == {items[n].location : n \in DOMAIN items}

\* C25: within every duplicate group exactly one item is kept and all
\* others are marked for removal (no item is kept and removed, none is
\* marked twice or in two groups); the kept item has the highest priority
\* present in the group and, among the group's items of that priority, the
\* longest text.
C25_KeptIsBestOfGroup ==
  dedup_pc \in {"remove", "report", "returned"} =>
    /\ \A g \in DOMAIN duplicates :
         LET group == duplicates[g]
         IN /\ Len(group.removed) >= 1
            /\ Cardinality(Locations(Members(group)))
                 = 1 + Len(group.removed)
            /\ Locations(Members(group)) \subseteq Locations(all_texts)
            /\ \A r \in Range(group.removed) :
                 /\ group.kept.priority <= r.priority
                 /\ group.kept.priority = r.priority
                      => Len(group.kept.text) >= Len(r.text)
    /\ \A g, h \in DOMAIN duplicates :
         g # h => Locations(Members(duplicates[g]))
                    \cap Locations(Members(duplicates[h])) = {}

\* C25 witness: a group of three in which the kept experience item is not
\* the one the group began with: a shorter experience item and a project
\* item are marked for removal
C25_Witness ==
  /\ dedup_pc = "returned"
  /\ \E g \in DOMAIN duplicates :
       LET group == duplicates[g]
       IN /\ group.kept.priority = 1
          /\ group.kept.location # all_texts[1].location
          /\ \E r \in Range(group.removed) :
               r.priority = 1 /\ Len(r.text) < Len(group.kept.text)
          /\ \E r \in Range(group.removed) : r.priority = 2

\* the descriptions of the work samples of a selection
SampleTexts(selection) ==
  {Get(sample, "description", <<>>) :
     sample \in Range(selection.selected_work_samples)}

\* C26: a string takes part in duplicate detection iff its length is at
\* least 20 characters: the texts of the selection that are extracted for
\* comparison are those of 20 characters or more.
C26_EligibleFromTwenty ==
  dedup_pc \notin {"idle", "extract"} =>
    \A text \in ExperienceTexts(content_selection)
                  \cup ProjectTexts(content_selection)
                  \cup SampleTexts(content_selection) :
      (\E n \in DOMAIN all_texts : all_texts[n].text = text)
        <=> Len(text) >= 20

\* the sum of a sequence of numbers
RECURSIVE Sum(_)
Sum(numbers) ==
  IF numbers = <<>> THEN 0 ELSE Head(numbers) + Sum(Tail(numbers))

\* the number of items (achievements, structured-response fields,
\* work samples) a selection holds
ItemCount(selection) ==
  LET exps == selection.selected_experiences
      projs == selection.selected_projects
  IN Sum([i \in DOMAIN exps |->
            Len(Get(exps[i], "key_achievements", <<>>))
            + Len(Get(exps[i], "persona_achievements", <<>>))])
     + Sum([i \in DOMAIN projs |->
              Len(Get(projs[i], "key_achievements", <<>>))
              + Cardinality(DOMAIN Get(projs[i], "structured_response",
                                       <<>>))])
     + Len(selection.selected_work_samples)

\* the texts a selection holds in the section
SectionTexts(selection, section) ==
  IF section = "experience" THEN ExperienceTexts(selection)
  ELSE IF section = "project" THEN ProjectTexts(selection)
  ELSE SampleTexts(selection)

\* C27: deduplicate always returns a report, and the report matches what
\* was done: its count of removed items is the number of items stripped
\* from the selection, and the item of every group it lists as kept is
\* held by the returned selection.
C27_ReportMatchesRemoval ==
  dedup_pc = "returned" =>
    /\ "deduplication_summary" \in DOMAIN deduplicated
    /\ deduplicated.deduplication_summary.duplicates_removed
         = ItemCount(content_selection) - ItemCount(deduplicated)
    /\ \A g \in DOMAIN duplicates :
         duplicates[g].kept.text
           \in SectionTexts(deduplicated, duplicates[g].kept.section)

\* ------------------------------------------------ structural validation

\* the entries of a draft in every category, each with its path: the
\* experience entries, their achievements that are dicts, the projects,
\* the work samples, the education entries and the publications
DraftEntries(draft) ==
  LET of(category) ==
        {[path |-> <<category, i - 1>>, entry |-> draft[category][i]] :
           i \in DOMAIN draft[category]}
      achievements(i) == Get(draft.experience[i], "achievements", <<>>)
  IN of("experience") \cup of("bulleted_projects") \cup of("work_samples")
       \cup of("education") \cup of("publications")
       \cup UNION {{[path |-> <<"experience", i - 1, "achievements", j - 1>>,
                     entry |-> achievements(i)[j]] :
                      j \in {k \in DOMAIN achievements(i) :
                               IsDict(achievements(i)[k])}} :
                   i \in DOMAIN draft.experience}

\* the source_id of an entry, NoSource when it has none
SourceOf(entry) ==
  LET source == Get(entry, "source_id", NoSource)
  IN IF source = "" THEN NoSource ELSE source

\* the issues reported at a path
IssuesAt(path) == {k \in DOMAIN issues : issues[k].location = path}

\* C28: structural validation returns an empty issue list if and only if
\* every entry of the draft, in every category, carries a source_id that
\* is the source_id of an item of the selection
C28_EmptyIffEveryEntrySourced ==
  validator_pc = "returned" =>
    (issues = <<>>
       <=> \A e \in DraftEntries(validator_draft) :
             SourceOf(e.entry) \in valid_sources(validator_selection))

\* C29: for each draft entry without a source_id the issue list holds
\* exactly one issue at the path of the entry, critical and of type
\* missing_source_id; for each draft entry whose source_id is not in the
\* selection it holds exactly one issue at the path of the entry, critical
\* and of type invalid_source_id
C29_OneIssuePerBadEntry ==
  validator_pc = "returned" =>
    \A e \in DraftEntries(validator_draft) :
      LET source == SourceOf(e.entry)
          type == IF source = NoSource THEN "missing_source_id"
                  ELSE "invalid_source_id"
      IN source \notin valid_sources(validator_selection) =>
           /\ Cardinality(IssuesAt(e.path)) = 1
           /\ \A k \in IssuesAt(e.path) :
                issues[k].severity = "critical" /\ issues[k].type = type

\* -------------------------------------------------- date standardization

\* the text standardize_date matches its patterns against
Normalized(date) == NormalizeDashes(SubCurrent(strip(date)))

\* the date has one of the accepted forms
AcceptedForm(date) ==
  \/ AlreadyCorrect(strip(date))
  \/ Pattern1(Normalized(date)) \/ Pattern2(Normalized(date))
  \/ Pattern3(Normalized(date)) \/ Pattern4(Normalized(date))
  \/ Pattern5(Normalized(date)) \/ Pattern6(Normalized(date))
  \/ Pattern7(Normalized(date))

\* C30: date normalization is total: it never raises, the empty string
\* gives the empty string, and a date that has none of the accepted forms
\* is returned exactly as it was given
C30_DateNormalizationTotal ==
  /\ date_pc # "raised"
  /\ date_pc = "returned" =>
       /\ date_input = <<>> => date_result.value = <<>>
       /\ ~AcceptedForm(date_input) => date_result.value = date_input

\* the word is the name or the abbreviation of a month
IsMonth(word) == lower(word) \in DOMAIN MONTH_ABBREV

\* the month a range or a single date starts with
StartMonth(text) == SubSeq(text, 1, MonthYear(text, 1).month - 1)

\* the month the end of a range is written with
EndMonth(text) ==
  LET second == Hyphen(text, MonthYear(text, 1).end)
  IN SubSeq(text, second, MonthYear(text, second).month - 1)

\* the numbers of the two months of MM/YYYY - MM/YYYY
SlashMonths(text) ==
  LET from == SlashYear(text, 1)
      second == Hyphen(text, from.end)
  IN <<IntOf(SubSeq(text, 1, from.month - 1)),
       IntOf(SubSeq(text, second, SlashYear(text, second).month - 1))>>

\* the accepted forms, read on the text with blanks stripped, Current
\* written Present and every dash a hyphen
YearRangeForm(date) == Pattern1(Normalized(date))

MonthRangeForm(date) ==
  /\ Pattern3(Normalized(date))
  /\ IsMonth(StartMonth(Normalized(date)))
  /\ IsMonth(EndMonth(Normalized(date)))

MonthToPresentForm(date) ==
  LET text == Normalized(date)
  IN /\ AtEnd(text, Literal(text, Hyphen(text, MonthYear(text, 1).end),
                            {Present, present}))
     /\ IsMonth(StartMonth(text))

SlashRangeForm(date) ==
  /\ Pattern5(Normalized(date))
  /\ \A k \in 1..2 : ValidMonth(SlashMonths(Normalized(date))[k])

BareYearForm(date) == Pattern6(Normalized(date))

BareMonthYearForm(date) ==
  Pattern7(Normalized(date)) /\ IsMonth(StartMonth(Normalized(date)))

\* "Mon YYYY" with the abbreviation of a month
IsMonYear(text) ==
  /\ Len(text) = 8
  /\ SubSeq(text, 1, 3) \in Range(MonthNames)
  /\ text[4] = " "
  /\ \A n \in 5..8 : text[n] \in Digits

\* "Mon YYYY - Mon YYYY" or "Mon YYYY - Present"
IsCanonicalRange(text) ==
  /\ Len(text) \in {18, 19}
  /\ IsMonYear(SubSeq(text, 1, 8))
  /\ SubSeq(text, 9, 11) = Dash
  /\ \/ Len(text) = 19 /\ IsMonYear(SubSeq(text, 12, 19))
     \/ Len(text) = 18 /\ SubSeq(text, 12, 18) = Present

\* C31: for every input in one of the accepted date forms the output is
\* canonical: YYYY-YYYY becomes "Jan YYYY - Dec YYYY" with the years
\* given, a month-year range with any dash or with Current or Present
\* becomes "Mon YYYY - Mon YYYY" or "Mon YYYY - Present", MM/YYYY - MM/YYYY
\* becomes "Mon YYYY - Mon YYYY" with the names of the months numbered, and
\* a bare year or month-year stays a single endpoint
C31_AcceptedFormsMadeCanonical ==
  LET text == Normalized(date_input)
      out == date_result.value
      years(first) ==
        /\ SubSeq(out, 5, 8) = SubSeq(text, first, first + 3)
        /\ SubSeq(out, 16, 19) = SubSeq(text, Len(text) - 3, Len(text))
  IN date_pc \in {"returned", "raised"} =>
       /\ YearRangeForm(date_input) =>
            /\ date_pc = "returned" /\ IsCanonicalRange(out) /\ years(1)
            /\ SubSeq(out, 1, 3) = MonthNames[1]
            /\ SubSeq(out, 12, 14) = MonthNames[12]
       /\ MonthRangeForm(date_input) =>
            date_pc = "returned" /\ IsCanonicalRange(out) /\ Len(out) = 19
       /\ MonthToPresentForm(date_input) =>
            date_pc = "returned" /\ IsCanonicalRange(out) /\ Len(out) = 18
       /\ SlashRangeForm(date_input) =>
            /\ date_pc = "returned" /\ IsCanonicalRange(out)
            /\ years(SlashYear(text, 1).month + 1)
            /\ SubSeq(out, 1, 3) = MonthNames[SlashMonths(text)[1]]
            /\ SubSeq(out, 12, 14) = MonthNames[SlashMonths(text)[2]]
       /\ BareYearForm(date_input) => date_pc = "returned" /\ out = text
       /\ BareMonthYearForm(date_input) =>
            date_pc = "returned" /\ IsMonYear(out)

\* a month written in full, with blanks, an em-dash and Current, has been
\* standardized
C31_Witness ==
  /\ date_pc = "returned"
  /\ date_input = <<" ", "o", "c", "t", "o", "b", "e", "r", " ", "2", "0",
                    "1", "9", " ", "EM DASH", " ", "C", "u", "r", "r",
                    "e", "n", "t">>
  /\ MonthToPresentForm(date_input)
  /\ date_result.value = <<"O", "c", "t", " ", "2", "0", "1", "9", " ", "-",
                           " ", "P", "r", "e", "s", "e", "n", "t">>

\* ------------------------------------------------------------ aggregate

\* C32: the selection-strategy narrative of the aggregate contains the
\* rationale of each of the five category results, the error annotation of
\* a category whose task failed included
C32_NarrativeHoldsEveryRationale ==
  select_pc = "aggregated" =>
    \A i \in Selectors :
      \E k \in DOMAIN aggregated.selection_strategy :
        aggregated.selection_strategy[k] = results[i].selection_notes

\* ----------------------------------------------------------- similarity

\* C33: the similarity of a non-empty text with itself is 1.0, and the
\* similarity of two texts is the same in either order
C33_SimilarityReflexiveSymmetric ==
  \A m \in DOMAIN all_texts, n \in DOMAIN all_texts :
    LET a == all_texts[m].text
        b == all_texts[n].text
    IN /\ Similarity[a, a].num = Similarity[a, a].den
       /\ Similarity[a, b] = Similarity[b, a]

\* --------------------------------------------------------------- phases

\* the style-refinement task or the QA task is invoked in this step
StyleOrQAInvoked ==
  \E agent \in {"voice_style_editor", "final_qa"} :
    hist'.calls[agent] > hist.calls[agent]

\* the draft recorded last has a validation result recorded after it
LastDraftValidated ==
  /\ hist.last["resume_drafter"] # 0
  /\ hist.validatedDraft = hist.last["resume_drafter"]

\* C34: the style-refinement and QA tasks are invoked only when
\* validation_complete is in completed_stages and the draft recorded last
\* has a full-validation result recorded after it; never on a draft
\* generated after the last recorded validation or without a recorded
\* validation
C34_Phase3OnValidatedDraftOnly ==
  [][StyleOrQAInvoked =>
       /\ "validation_complete"
            \in Range(state_manager.state.completed_stages)
       /\ LastDraftValidated]_vars

\* C35: in one Phase 2 run the draft task and the full validation task are
\* each invoked at most max_validation_retries + 1 times, and neither is
\* invoked again after a validation result with is_valid true
C35_Phase2LoopBounded ==
  hist.phase = 2 =>
    /\ hist.callsRun["resume_drafter"] <= max_validation_retries + 1
    /\ hist.callsRun["validator"] <= max_validation_retries + 1
    /\ (pc \in {"p2_draft", "p2_precheck", "p2_validate"}
          /\ hist.callsRun["validator"] > 0) => loc.verdict # "valid"

\* C35 witness: Phase 2 has left its loop after max_validation_retries + 1
\* drafts and as many validations, the last of them valid
C35_Witness ==
  /\ hist.phase = 2
  /\ pc = "p2_end"
  /\ hist.callsRun["resume_drafter"] = max_validation_retries + 1
  /\ hist.callsRun["validator"] = max_validation_retries + 1
  /\ loc.verdict = "valid"

\* ---------------------------------------------------------- state store

\* C36: whenever a stage is in the completed_stages of the stored state, an
\* output of that stage's task is in the outputs directory, so that
\* load_agent_output for the task does not return None; in every
\* intermediate state, also after the process was killed between the
\* write of the output file and the write of the state file
C36_CompletedStageHasOutput ==
  \A agent \in Agents :
    StageOf(agent) \in Range(state_file.data.completed_stages)
      => load_agent_output(outputs_dir, agent) # 0

\* C36 witness: the process was killed after the draft was written and
\* before the state file was; the stages of the earlier tasks are stored
C36_Witness ==
  /\ pc = "idle"
  /\ hist.crashes = 1
  /\ outputs_dir["resume_drafter"] # <<>>
  /\ "draft_complete" \notin Range(state_file.data.completed_stages)
  /\ "content_selection_complete" \in Range(state_file.data.completed_stages)
  /\ load_agent_output(outputs_dir, "content_selector") # 0

\* ---------------------------------------------------------------- error log

\* a phase ends in this step with an exception that reaches its caller
PhaseRaises ==
  /\ pc # "done"
  /\ pc' = "done"
  /\ hist'.outcome = "raised"

\* the step appends one entry to the stored error list and to the list in
\* memory, and leaves the stored stage fields alone
OneErrorLogged ==
  /\ \E e \in {"Phase 1 failed", "Phase 2 failed", "Phase 3 failed"} :
       state_file'.data.errors = Append(state_file.data.errors, e)
  /\ state_manager'.state.errors = state_file'.data.errors
  /\ state_file'.data.completed_stages = state_file.data.completed_stages
  /\ state_file'.data.current_stage = state_file.data.current_stage

\* the stored error list only grows at its end
ErrorsAppendOnly ==
  /\ Len(state_file'.data.errors) >= Len(state_file.data.errors)
  /\ SubSeq(state_file'.data.errors, 1, Len(state_file.data.errors))
       = state_file.data.errors

\* C37: when a phase fails with an exception, exactly one entry describing
\* the failure is appended to the error list and stored before the exception
\* reaches the caller; the error list is append-only, and the failure
\* handling leaves completed_stages and current_stage unchanged
C37_FailureLoggedOnce ==
  [][/\ PhaseRaises => OneErrorLogged
     /\ ErrorsAppendOnly]_vars

\* ------------------------------------------------------- deduplication

\* the eligible items a selection holds, as the agent extracts them
EligibleItems(selection) == _extract_all_texts(selection)

\* C38: after Deduplicate returns, no two eligible items that remain in the
\* selection (experience achievements, project achievements or
\* structured-response fields, work-sample descriptions, each of eligible
\* length) have a similarity at or above the threshold
C38_NoDuplicatesRemain ==
  dedup_pc = "returned" =>
    LET left == EligibleItems(deduplicated)
    IN \A i, j \in DOMAIN left :
         i # j => ~IsDuplicate(Similarity[left[i].text, left[j].text])

\* the locations marked for removal
MarkedLocations ==
  UNION {Locations(duplicates[g].removed) : g \in DOMAIN duplicates}

\* the positions in the list of an entry (counted from 0) marked for removal
MarkedItems(section, i, field) ==
  {l.item : l \in {m \in MarkedLocations : /\ m.section = section
                                           /\ m.entry = i - 1
                                           /\ m.field = field}}

\* some item of the entry is marked for removal
MarkedEntry(section, i) ==
  \E l \in MarkedLocations : l.section = section /\ l.entry = i - 1

\* the selection key of a section and the lists of its entries that hold
\* achievements
KeyOf(section) ==
  IF section = "experience" THEN "selected_experiences"
  ELSE IF section = "project" THEN "selected_projects"
  ELSE "selected_work_samples"

AchievementLists(section) ==
  IF section = "experience" THEN {"key_achievements", "persona_achievements"}
  ELSE IF section = "project" THEN {"key_achievements"}
  ELSE {}

\* the entries of the output that came from the entry (same source_id)
Kept(section, entry) ==
  {e \in Range(deduplicated[KeyOf(section)]) : e.source_id = entry.source_id}

\* out is the entry with nothing changed but marked achievements taken out
OnlyMarkedTakenOut(section, i, entry, out) ==
  /\ DOMAIN out = DOMAIN entry
  /\ \A field \in DOMAIN entry :
       IF field \in AchievementLists(section)
       THEN \E gone \in SUBSET MarkedItems(section, i, field) :
              out[field] = Without(entry[field], gone)
       ELSE out[field] = entry[field]

\* the removals empty the achievement lists of the entry, which held some
EmptiedByRemovals(section, i, entry) ==
  /\ MarkedEntry(section, i)
  /\ \A field \in AchievementLists(section) \cap DOMAIN entry :
       {j - 1 : j \in DOMAIN entry[field]}
         \subseteq MarkedItems(section, i, field)

\* C39: Deduplicate changes the selection only by applying the marked
\* removals: an entry none of whose items is marked for removal is present
\* and unchanged in the output, and an entry is dropped from its category
\* only if removals made its achievement list empty
C39_OnlyMarkedRemovalsApplied ==
  dedup_pc = "returned" =>
    \A section \in {"experience", "project", "work_sample"} :
      LET entries == content_selection[KeyOf(section)]
      IN \A i \in DOMAIN entries :
           /\ ~MarkedEntry(section, i)
                => Kept(section, entries[i]) = {entries[i]}
           /\ \A out \in Kept(section, entries[i]) :
                OnlyMarkedTakenOut(section, i, entries[i], out)
           /\ Kept(section, entries[i]) = {}
                => EmptiedByRemovals(section, i, entries[i])

\* ------------------------------------------------------- normalization

\* C40: normalization is idempotent: applying Normalize to an
\* already-normalized selection returns it unchanged,
\* Normalize(Normalize(x)) = Normalize(x), for date fields, publication
\* records (journal, year, url) and contact blocks alike
C40_NormalizeIdempotent ==
  normalize_pc = "returned again" => transformed = previous

====
